---------------------------- MODULE Spec2Model ----------------------------
(***************************************************************************)
(* A model of the JIRA wiki-markup to Markdown converter of                *)
(* migrate_jira-cloud (markdownwriter.go), of its attachment downloader    *)
(* (downloader.go), of the paged search of its JIRA client (jiraclient.go) *)
(* and of the batch loops of main.go.  Texts are TLA+ strings; a           *)
(* character is a string of length one.  The regular expressions of the    *)
(* source are kept as data (sequences of nodes) and matched by a           *)
(* backtracking matcher with Go's leftmost-first semantics; the string     *)
(* functions of Go's standard library the code calls are operators.        *)
(***************************************************************************)
EXTENDS Integers, Sequences, FiniteSets, TLC

VARIABLES
    pc,        \* position of the operation under study
    userMapping, \* MarkdownWriter.userMapping: account id -> display name
    source,    \* the parts the input text was written from
    input,     \* the text handed to the operation
    text,      \* the text the operation has produced so far
    vault,     \* the values a protect step stored (the protected list lines)
    saved,     \* the result of the previous application of the operation
    rewrite,   \* the last rewrite a decoration scan applied
    cursor,    \* searchIssues / convertFromJSON: index of the item of the loop
    disk,      \* the attachments directory: stored file name -> content
    calls,     \* the calls made to the outside (issue tracker, HTTP, files)
    written,   \* the Markdown files written: issue key -> content
    downloaded,      \* what the last DownloadAttachments returned
    attachmentFiles, \* searchIssues: the local variable attachmentFiles
    page,            \* SearchJQLV3: the loop variable page
    nextPageToken,   \* SearchJQLV3: the local variable nextPageToken
    seenTokens,      \* SearchJQLV3: the keys of the map seenTokens
    allIssueKeys     \* SearchJQLV3: the local variable allIssueKeys

\* the local variables of SearchJQLV3
search == <<page, nextPageToken, seenTokens, allIssueKeys>>

\* the variables of a batch run
batch == <<cursor, disk, calls, written, downloaded, attachmentFiles, search>>

vars == <<pc, userMapping, source, input, text, vault, saved, rewrite, batch>>

\* no file downloaded, nothing returned
NoDownload == [files |-> <<>>, err |-> FALSE]

\* no search is running
NoSearch ==
    /\ page = 0
    /\ nextPageToken = ""
    /\ seenTokens = {}
    /\ allIssueKeys = <<>>

\* outside a batch run: no loop, an empty directory, no call
NoBatch ==
    /\ NoSearch
    /\ cursor = 0
    /\ disk = <<>>
    /\ calls = <<>>
    /\ written = <<>>
    /\ downloaded = NoDownload
    /\ attachmentFiles = <<>>

---------------------------------------------------------------------------
(* Bounds of the checked input families.                                   *)

\* longest free text over the list alphabet
MaxListLen == 5
\* how far a marker run may exceed the six levels the patterns accept
MaxExtraMarkers == 1

\* longest text over the bold alphabet
MaxBoldLen == 7
\* longest free line over the strikethrough alphabet
MaxStrikeLen == 4

\* the deepest list level of the list patterns, \*{1,6} and #{1,6}
MaxListLevel == 6

\* all strings over the characters alpha of length at most n
RECURSIVE Strings(_, _)
Strings(alpha, n) ==
    IF n = 0 THEN {""}
    ELSE LET S == Strings(alpha, n - 1)
         IN  S \cup {s \o c : s \in S, c \in alpha}

---------------------------------------------------------------------------
(* Characters and character classes.                                       *)

Digits == {"0", "1", "2", "3", "4", "5", "6", "7", "8", "9"}

LowerLetters ==
    {"a", "b", "c", "d", "e", "f", "g", "h", "i", "j", "k", "l", "m",
     "n", "o", "p", "q", "r", "s", "t", "u", "v", "w", "x", "y", "z"}

UpperLetters ==
    {"A", "B", "C", "D", "E", "F", "G", "H", "I", "J", "K", "L", "M",
     "N", "O", "P", "Q", "R", "S", "T", "U", "V", "W", "X", "Y", "Z"}

\* Go regexp \s: [\t\n\f\r ]
SpaceClass == {" ", "\t", "\n", "\f", "\r"}

\* Go regexp \w: [0-9A-Za-z_]
WordClass == Digits \cup LowerLetters \cup UpperLetters \cup {"_"}

HexClass == Digits \cup {"a", "b", "c", "d", "e", "f", "A", "B", "C", "D", "E", "F"}

LowerChar(c) ==
    CASE c = "A" -> "a" [] c = "B" -> "b" [] c = "C" -> "c" [] c = "D" -> "d"
      [] c = "E" -> "e" [] c = "F" -> "f" [] c = "G" -> "g" [] c = "H" -> "h"
      [] c = "I" -> "i" [] c = "J" -> "j" [] c = "K" -> "k" [] c = "L" -> "l"
      [] c = "M" -> "m" [] c = "N" -> "n" [] c = "O" -> "o" [] c = "P" -> "p"
      [] c = "Q" -> "q" [] c = "R" -> "r" [] c = "S" -> "s" [] c = "T" -> "t"
      [] c = "U" -> "u" [] c = "V" -> "v" [] c = "W" -> "w" [] c = "X" -> "x"
      [] c = "Y" -> "y" [] c = "Z" -> "z" [] OTHER -> c

---------------------------------------------------------------------------
(* Go's strings package, as the converter uses it.                         *)

CharAt(s, i) == SubSeq(s, i, i)

MinOf(S) == CHOOSE x \in S : \A y \in S : x <= y

MaxOf(S) == CHOOSE x \in S : \A y \in S : x >= y

\* Binds the value of v once and hands it to F (a local variable of the code).
With(v, F(_)) == CHOOSE r \in {F(e) : e \in {v}} : TRUE

RECURSIVE ToLower(_)
ToLower(s) ==
    IF s = "" THEN "" ELSE LowerChar(Head(s)) \o ToLower(Tail(s))

HasPrefix(s, p) == Len(s) >= Len(p) /\ SubSeq(s, 1, Len(p)) = p

HasSuffix(s, p) == Len(s) >= Len(p) /\ SubSeq(s, Len(s) - Len(p) + 1, Len(s)) = p

\* strings.Index from position i (1-based); 0 when sub does not occur
IndexFrom(s, sub, i) ==
    LET hits == {k \in i..(Len(s) - Len(sub) + 1) : SubSeq(s, k, k + Len(sub) - 1) = sub}
    IN  IF hits = {} THEN 0 ELSE MinOf(hits)

Contains(s, sub) == IndexFrom(s, sub, 1) > 0

\* strings.Split(s, sep), sep not empty
RECURSIVE Split(_, _)
Split(s, sep) ==
    LET k == IndexFrom(s, sep, 1)
    IN  IF k = 0 THEN <<s>>
        ELSE <<SubSeq(s, 1, k - 1)>> \o Split(SubSeq(s, k + Len(sep), Len(s)), sep)

\* strings.Join(parts, sep)
RECURSIVE Join(_, _)
Join(parts, sep) ==
    IF Len(parts) = 0 THEN ""
    ELSE IF Len(parts) = 1 THEN parts[1]
    ELSE parts[1] \o sep \o Join(Tail(parts), sep)

\* strings.Replace(s, old, new, 1): the first occurrence only
ReplaceFirst(s, old, new) ==
    LET k == IndexFrom(s, old, 1)
    IN  IF k = 0 THEN s
        ELSE SubSeq(s, 1, k - 1) \o new \o SubSeq(s, k + Len(old), Len(s))

\* strings.ReplaceAll(s, old, new): non-overlapping occurrences, left to right
RECURSIVE ReplaceAll(_, _, _)
ReplaceAll(s, old, new) ==
    LET k == IndexFrom(s, old, 1)
    IN  IF k = 0 THEN s
        ELSE SubSeq(s, 1, k - 1) \o new
             \o ReplaceAll(SubSeq(s, k + Len(old), Len(s)), old, new)

\* strings.Repeat(s, n)
RECURSIVE Repeat(_, _)
Repeat(s, n) == IF n <= 0 THEN "" ELSE s \o Repeat(s, n - 1)

\* strings.Trim(s, cutset) for a one-character cutset
RECURSIVE TrimLeftChar(_, _)
TrimLeftChar(s, c) ==
    IF s # "" /\ Head(s) = c THEN TrimLeftChar(Tail(s), c) ELSE s

RECURSIVE TrimRightChar(_, _)
TrimRightChar(s, c) ==
    IF s # "" /\ CharAt(s, Len(s)) = c
    THEN TrimRightChar(SubSeq(s, 1, Len(s) - 1), c) ELSE s

TrimChar(s, c) == TrimRightChar(TrimLeftChar(s, c), c)

\* strings.TrimSpace, for the white space a text of the model can hold
RECURSIVE TrimSpaceLeft(_)
TrimSpaceLeft(s) ==
    IF s # "" /\ Head(s) \in SpaceClass
    THEN TrimSpaceLeft(Tail(s)) ELSE s

RECURSIVE TrimSpaceRight(_)
TrimSpaceRight(s) ==
    IF s # "" /\ CharAt(s, Len(s)) \in SpaceClass
    THEN TrimSpaceRight(SubSeq(s, 1, Len(s) - 1)) ELSE s

TrimSpace(s) == TrimSpaceRight(TrimSpaceLeft(s))

\* fmt.Sprintf("%d", n) for n >= 0
Itoa(n) == ToString(n)

---------------------------------------------------------------------------
(* Regular expressions: a pattern is a sequence of nodes.                  *)

\* one character of a class ([...] or, negated, [^...])
Chr(set) == [t |-> "chr", neg |-> FALSE, set |-> set]
NotChr(set) == [t |-> "chr", neg |-> TRUE, set |-> set]
\* a literal string
Str(s) == [t |-> "str", str |-> s]
\* a literal string under (?i); s is given in lower case
IStr(s) == [t |-> "istr", str |-> s]
\* a class repeated min..max times (max < 0: unbounded), greedy or lazy
Rep(cls, min, max, greedy) ==
    [t |-> "rep", neg |-> cls.neg, set |-> cls.set, min |-> min, max |-> max,
     greedy |-> greedy]
\* an optional group (sub)?
Opt(sub) == [t |-> "opt", sub |-> sub]
\* the parentheses of capture group k
Open(k) == [t |-> "open", k |-> k]
Close(k) == [t |-> "close", k |-> k]
\* ^ and $ without (?m): the ends of the text
Bol == [t |-> "bol"]
Eol == [t |-> "eol"]

\* . without (?s), and with it
Dot == NotChr({"\n"})
DotAll == NotChr({})

InClass(c, n) == (c \in n.set) # n.neg

NoCaps == [k \in 1..3 |-> <<1, 1>>]

NoMatch == [ok |-> FALSE, end |-> 0, caps |-> NoCaps]

\* The leftmost-first match of the pattern `nodes` that starts at position i
\* of s: alternatives are tried in the order of preference and the first one
\* that lets the rest of the pattern match is kept.
RECURSIVE Match(_, _, _, _)
Match(nodes, s, i, caps) ==
    IF Len(nodes) = 0 THEN [ok |-> TRUE, end |-> i, caps |-> caps]
    ELSE
      LET n == Head(nodes)
          rest == Tail(nodes)
      IN  CASE n.t = "chr" ->
                 IF i <= Len(s) /\ InClass(CharAt(s, i), n)
                 THEN Match(rest, s, i + 1, caps) ELSE NoMatch
            [] n.t = "str" ->
                 IF i + Len(n.str) - 1 <= Len(s)
                    /\ SubSeq(s, i, i + Len(n.str) - 1) = n.str
                 THEN Match(rest, s, i + Len(n.str), caps) ELSE NoMatch
            [] n.t = "istr" ->
                 IF i + Len(n.str) - 1 <= Len(s)
                    /\ ToLower(SubSeq(s, i, i + Len(n.str) - 1)) = n.str
                 THEN Match(rest, s, i + Len(n.str), caps) ELSE NoMatch
            [] n.t = "rep" ->
                 \* run: how many characters of the class follow position i;
                 \* oks: the repetition counts that let the rest match
                 LET stops == {k \in i..Len(s) : ~InClass(CharAt(s, k), n)}
                     run == (IF stops = {} THEN Len(s) + 1 ELSE MinOf(stops)) - i
                     hi == IF n.max >= 0 /\ n.max < run THEN n.max ELSE run
                     oks == {k \in n.min..hi : Match(rest, s, i + k, caps).ok}
                 IN  IF oks = {} THEN NoMatch
                     ELSE Match(rest, s,
                                i + (IF n.greedy THEN MaxOf(oks) ELSE MinOf(oks)), caps)
            [] n.t = "opt" ->
                 LET with == Match(n.sub \o rest, s, i, caps)
                 IN  IF with.ok THEN with ELSE Match(rest, s, i, caps)
            [] n.t = "open" ->
                 Match(rest, s, i, [caps EXCEPT ![n.k] = <<i, i>>])
            [] n.t = "close" ->
                 Match(rest, s, i, [caps EXCEPT ![n.k] = <<caps[n.k][1], i>>])
            [] n.t = "bol" ->
                 IF i = 1 THEN Match(rest, s, i, caps) ELSE NoMatch
            [] n.t = "eol" ->
                 IF i = Len(s) + 1 THEN Match(rest, s, i, caps) ELSE NoMatch

\* regexp.FindAllStringSubmatchIndex(s, -1): the successive non-overlapping
\* leftmost matches, each [start, end) with its capture groups
\* the positions of s at which the pattern matches
MatchStarts(nodes, s) == {j \in 1..(Len(s) + 1) : Match(nodes, s, j, NoCaps).ok}

RECURSIVE FindAllFrom(_, _, _, _)
FindAllFrom(nodes, s, starts, i) ==
    LET later == {j \in starts : j >= i}
    IN  IF later = {} THEN <<>>
        ELSE LET j == MinOf(later)
                 m == Match(nodes, s, j, NoCaps)
             IN  <<[start |-> j, end |-> m.end, caps |-> m.caps]>>
                 \o FindAllFrom(nodes, s, starts, IF m.end > j THEN m.end ELSE j + 1)

FindAll(nodes, s) == FindAllFrom(nodes, s, MatchStarts(nodes, s), 1)

\* regexp.MatchString / FindStringSubmatch: the first match
FindFirst(nodes, s) ==
    LET starts == MatchStarts(nodes, s)
    IN  IF starts = {} THEN [start |-> 0, end |-> 0, caps |-> NoCaps]
        ELSE LET j == MinOf(starts)
                 m == Match(nodes, s, j, NoCaps)
             IN  [start |-> j, end |-> m.end, caps |-> m.caps]

MatchString(nodes, s) == FindFirst(nodes, s).start > 0

\* the text of capture group k of match m in s
Group(s, m, k) == SubSeq(s, m.caps[k][1], m.caps[k][2] - 1)

\* the text s with each match ms[j] replaced by reps[j]
RECURSIVE Splice(_, _, _, _, _)
Splice(s, ms, reps, j, from) ==
    IF j > Len(ms) THEN SubSeq(s, from, Len(s))
    ELSE SubSeq(s, from, ms[j].start - 1) \o reps[j]
         \o Splice(s, ms, reps, j + 1, ms[j].end)

\* regexp.ReplaceAllStringFunc: Render(m, j) is the replacement of the j-th
\* match m (j counts from 1)
ReplaceAllStringFunc(nodes, s, Render(_, _)) ==
    LET ms == FindAll(nodes, s)
        reps == [j \in 1..Len(ms) |-> Render(ms[j], j)]
    IN  Splice(s, ms, reps, 1, 1)

---------------------------------------------------------------------------
(* Lists.                                                                  *)

\* ^\s*(\*{1,6})\s+(.+)$
bulletListPattern ==
    <<Bol, Rep(Chr(SpaceClass), 0, -1, TRUE),
      Open(1), Rep(Chr({"*"}), 1, MaxListLevel, TRUE), Close(1),
      Rep(Chr(SpaceClass), 1, -1, TRUE),
      Open(2), Rep(Dot, 1, -1, TRUE), Close(2), Eol>>

\* ^\s*(#{1,6})\s+(.+)$
numberedListPattern ==
    <<Bol, Rep(Chr(SpaceClass), 0, -1, TRUE),
      Open(1), Rep(Chr({"#"}), 1, MaxListLevel, TRUE), Close(1),
      Rep(Chr(SpaceClass), 1, -1, TRUE),
      Open(2), Rep(Dot, 1, -1, TRUE), Close(2), Eol>>

\* convertListLine with an indent unit of two spaces instead of four
convertListLineTwoSpaces(line) ==
    LET b == FindFirst(bulletListPattern, line)
        n == FindFirst(numberedListPattern, line)
    IN  IF b.start > 0
        THEN Repeat("  ", Len(Group(line, b, 1)) - 1) \o "- " \o Group(line, b, 2)
        ELSE IF n.start > 0
        THEN Repeat("  ", Len(Group(line, n, 1)) - 1) \o "1. " \o Group(line, n, 2)
        ELSE line

convertListLine(line) ==
    LET b == FindFirst(bulletListPattern, line)
        n == FindFirst(numberedListPattern, line)
    IN  IF b.start > 0
        THEN Repeat("    ", Len(Group(line, b, 1)) - 1) \o "- " \o Group(line, b, 2)
        ELSE IF n.start > 0
        THEN Repeat("    ", Len(Group(line, n, 1)) - 1) \o "1. " \o Group(line, n, 2)
        ELSE line

convertJIRAListsToMarkdown(t) ==
    LET lines == Split(t, "\n")
    IN  Join([i \in 1..Len(lines) |-> convertListLine(lines[i])], "\n")

isListLine(line) ==
    MatchString(bulletListPattern, line) \/ MatchString(numberedListPattern, line)

ListPlaceholder(i) == "___LIST_PLACEHOLDER_" \o Itoa(i) \o "___"

\* the lines of `lines` that are list lines, in order
RECURSIVE protectedLines(_)
protectedLines(lines) ==
    IF Len(lines) = 0 THEN <<>>
    ELSE (IF isListLine(Head(lines)) THEN <<Head(lines)>> ELSE <<>>)
         \o protectedLines(Tail(lines))

\* protectListLines: the placeholder carries the index of the line in the
\* text (from 0); `protected` collects the list lines in order
protectListLines(t) ==
    LET lines == Split(t, "\n")
    IN  [text |-> Join([i \in 1..Len(lines) |->
                          IF isListLine(lines[i]) THEN ListPlaceholder(i - 1)
                          ELSE lines[i]], "\n"),
         protected |-> protectedLines(lines)]

\* restoreListLines: the placeholder looked for carries the index of the
\* line in `protected` (from 0)
RECURSIVE restoreFrom(_, _, _)
restoreFrom(t, protected, i) ==
    IF i > Len(protected) THEN t
    ELSE restoreFrom(ReplaceFirst(t, ListPlaceholder(i - 1), protected[i]),
                     protected, i + 1)

restoreListLines(t, protected) == restoreFrom(t, protected, 1)


---------------------------------------------------------------------------
(* Inline decorations: bold, italic, strikethrough.                        *)


NotFound(line) == [found |-> FALSE, line |-> line, start |-> 0, end |-> 0]

\* the line with the match m rewritten to open \o <group 1> \o close
Rewritten(line, m, open, close) ==
    [found |-> TRUE,
     line |-> SubSeq(line, 1, m.start - 1) \o open \o Group(line, m, 1) \o close
              \o SubSeq(line, m.end, Len(line)),
     start |-> m.start, end |-> m.end]

\* \*([^\*\n]+?)\*
boldPattern ==
    <<Str("*"), Open(1), Rep(NotChr({"*", "\n"}), 1, -1, FALSE), Close(1), Str("*")>>

\* isBold with the check of the character after the match left out
isBoldBeforeOnly(line, m) ==
    m.start > 1 /\ CharAt(line, m.start - 1) = "*"

\* isBold: a "*" right before or right after the match
isBold(line, m) ==
    \/ m.start > 1 /\ CharAt(line, m.start - 1) = "*"
    \/ m.end <= Len(line) /\ CharAt(line, m.end) = "*"

\* BoldScan walking the matches from the first to the last: the first one
\* that is not isBold is rewritten
BoldScanFromFirst(line) ==
    LET ms == FindAll(boldPattern, line)
        ok == {j \in 1..Len(ms) : ~isBold(line, ms[j])}
    IN  IF ok = {} THEN NotFound(line)
        ELSE Rewritten(line, ms[MinOf(ok)], "**", "**")

\* One round of the loop of convertBoldMarkup: all matches are found, they
\* are walked from the last to the first and the first one that is not
\* isBold is rewritten.
BoldScan(line) ==
    LET ms == FindAll(boldPattern, line)
        ok == {j \in 1..Len(ms) : ~isBold(line, ms[j])}
    IN  IF ok = {} THEN NotFound(line)
        ELSE Rewritten(line, ms[MaxOf(ok)], "**", "**")

\* convertBoldLine without the loop: a single round
convertBoldLineOneRound(line) == BoldScan(line).line

\* the loop of convertBoldMarkup on one line: rounds until nothing changes
RECURSIVE convertBoldLine(_)
convertBoldLine(line) ==
    LET r == BoldScan(line)
    IN  IF r.found THEN convertBoldLine(r.line) ELSE line

convertBoldMarkup(t) ==
    LET lines == Split(t, "\n")
    IN  Join([i \in 1..Len(lines) |-> convertBoldLine(lines[i])], "\n")

\* _([^_\n]+?)_
italicPattern ==
    <<Str("_"), Open(1), Rep(NotChr({"_", "\n"}), 1, -1, FALSE), Close(1), Str("_")>>

isItalic(line, m) ==
    \/ m.start > 1 /\ CharAt(line, m.start - 1) = "_"
    \/ m.end <= Len(line) /\ CharAt(line, m.end) = "_"

ItalicScan(line) ==
    LET ms == FindAll(italicPattern, line)
        ok == {j \in 1..Len(ms) : ~isItalic(line, ms[j])}
    IN  IF ok = {} THEN NotFound(line)
        ELSE Rewritten(line, ms[MaxOf(ok)], "*", "*")

RECURSIVE convertItalicLine(_)
convertItalicLine(line) ==
    LET r == ItalicScan(line)
    IN  IF r.found THEN convertItalicLine(r.line) ELSE line

convertItalicMarkup(t) ==
    LET lines == Split(t, "\n")
    IN  Join([i \in 1..Len(lines) |-> convertItalicLine(lines[i])], "\n")

\* -([^- \n]+?)-
strikePattern ==
    <<Str("-"), Open(1), Rep(NotChr({"-", " ", "\n"}), 1, -1, FALSE), Close(1), Str("-")>>

\* strikeBoundary without the digits and without the hyphen
strikeBoundaryLetters == LowerLetters \cup UpperLetters \cup {"/", ":"}

\* the boundary characters that make convertStrikethroughMarkup skip a match:
\* ASCII letters and digits and the symbols - / :
strikeBoundary == Digits \cup LowerLetters \cup UpperLetters \cup {"-", "/", ":"}

\* shouldSkip without the check of the character after the match
shouldSkipBeforeOnly(line, m) ==
    LET matchContent == Group(line, m, 1)
        blank == TrimSpace(matchContent) = ""
        before == m.start > 1 /\ CharAt(line, m.start - 1) \in strikeBoundary
        tildesBefore == /\ m.start > 2
                        /\ CharAt(line, m.start - 1) = "~"
                        /\ CharAt(line, m.start - 2) = "~"
    IN  blank \/ before \/ tildesBefore

\* shouldSkip of convertStrikethroughMarkup for the match m of line
shouldSkip(line, m) ==
    LET matchContent == Group(line, m, 1)
        blank == TrimSpace(matchContent) = ""
        marker == m.start = 1 /\ Len(matchContent) > 0 /\ Head(matchContent) = " "
        before == m.start > 1 /\ CharAt(line, m.start - 1) \in strikeBoundary
        after == m.end <= Len(line) /\ CharAt(line, m.end) \in strikeBoundary
        tildesBefore == /\ m.start > 2
                        /\ CharAt(line, m.start - 1) = "~"
                        /\ CharAt(line, m.start - 2) = "~"
        tildesAfter == /\ m.end < Len(line)
                       /\ CharAt(line, m.end) = "~"
                       /\ m.end + 1 < Len(line)
                       /\ CharAt(line, m.end + 1) = "~"
    IN  blank \/ marker \/ before \/ after \/ tildesBefore \/ tildesAfter

StrikeScan(line) ==
    LET ms == FindAll(strikePattern, line)
        ok == {j \in 1..Len(ms) : ~shouldSkip(line, ms[j])}
    IN  IF ok = {} THEN NotFound(line)
        ELSE Rewritten(line, ms[MaxOf(ok)], "~~", "~~")

RECURSIVE convertStrikeLine(_)
convertStrikeLine(line) ==
    LET r == StrikeScan(line)
    IN  IF r.found THEN convertStrikeLine(r.line) ELSE line

convertStrikethroughMarkup(t) ==
    LET lines == Split(t, "\n")
    IN  Join([i \in 1..Len(lines) |-> convertStrikeLine(lines[i])], "\n")

---------------------------------------------------------------------------
(* Code blocks and inline code: protected first, restored last.            *)

\* (?s)\{code:([^}]+)\}(.*?)\{code\}
codeWithLangPattern ==
    <<Str("{code:"), Open(1), Rep(NotChr({"}"}), 1, -1, TRUE), Close(1), Str("}"),
      Open(2), Rep(DotAll, 0, -1, FALSE), Close(2), Str("{code}")>>

\* (?s)\{code\}(.*?)\{code\}
codePattern ==
    <<Str("{code}"), Open(1), Rep(DotAll, 0, -1, FALSE), Close(1), Str("{code}")>>

\* (?s)\{noformat\}(.*?)\{noformat\}
noformatPattern ==
    <<Str("{noformat}"), Open(1), Rep(DotAll, 0, -1, FALSE), Close(1), Str("{noformat}")>>

\* \{\{([^}]+)\}\}
inlineCodePattern ==
    <<Str("{{"), Open(1), Rep(NotChr({"}"}), 1, -1, TRUE), Close(1), Str("}}")>>

\* The backquote of the Markdown fences cannot be written in a string of this
\* module.  The texts of the model write it as "@", which like the backquote
\* is in no literal and no positive class of any pattern of the converter and
\* is no boundary character of the decoration scans.
Backquote == "@"

Fence == Backquote \o Backquote \o Backquote

CodePlaceholder(i) == "__CODE_BLOCK_" \o Itoa(i) \o "__"

InlinePlaceholder(i) == "__INLINE_CODE_" \o Itoa(i) \o "__"

\* steps 1 to 4 of convertJIRAMarkupToMarkdown: every match becomes a
\* placeholder numbered by placeholderIndex (shared by the three block
\* patterns) or inlineCodeIndex, and its Markdown form is stored
\* One of the three block patterns: every match is stored as a fenced block
\* (with its language when the pattern captures one) and replaced by the
\* placeholder of its index in codeBlocks.
protectBlocks(st, pattern, hasLang) ==
    With(FindAll(pattern, st.text), LAMBDA ms :
        [st EXCEPT
            !.text = Splice(st.text, ms,
                            [j \in 1..Len(ms) |->
                                CodePlaceholder(Len(st.codeBlocks) + j - 1)], 1, 1),
            !.codeBlocks = @ \o
                [j \in 1..Len(ms) |->
                    IF hasLang
                    THEN Fence \o Group(st.text, ms[j], 1) \o "\n"
                         \o Group(st.text, ms[j], 2) \o "\n" \o Fence
                    ELSE Fence \o "\n" \o Group(st.text, ms[j], 1) \o "\n" \o Fence]])

protectInline(st) ==
    With(FindAll(inlineCodePattern, st.text), LAMBDA ms :
        [st EXCEPT
            !.text = Splice(st.text, ms,
                            [j \in 1..Len(ms) |-> InlinePlaceholder(j - 1)], 1, 1),
            !.inlineCodes = [j \in 1..Len(ms) |->
                                Backquote \o Group(st.text, ms[j], 1) \o Backquote]])

protectCode(t) ==
    With(protectBlocks([text |-> t, codeBlocks |-> <<>>, inlineCodes |-> <<>>],
                       codeWithLangPattern, TRUE),
         LAMBDA st1 :
    With(protectBlocks(st1, codePattern, FALSE), LAMBDA st2 :
    With(protectBlocks(st2, noformatPattern, FALSE), LAMBDA st3 :
    protectInline(st3))))

\* for i, v := range values { text = strings.ReplaceAll(text, placeholder(i), v) }
RECURSIVE restoreCodeBlocks(_, _, _)
restoreCodeBlocks(t, blocks, i) ==
    IF i > Len(blocks) THEN t
    ELSE restoreCodeBlocks(ReplaceAll(t, CodePlaceholder(i - 1), blocks[i]), blocks, i + 1)

RECURSIVE restoreInlineCodes(_, _, _)
restoreInlineCodes(t, codes, i) ==
    IF i > Len(codes) THEN t
    ELSE restoreInlineCodes(ReplaceAll(t, InlinePlaceholder(i - 1), codes[i]), codes, i + 1)

---------------------------------------------------------------------------
(* Brace macros.                                                           *)

\* (?s)\{quote\}(.*?)\{quote\}
quotePattern ==
    <<Str("{quote}"), Open(1), Rep(DotAll, 0, -1, FALSE), Close(1), Str("{quote}")>>

quoteLine(line) == IF TrimSpace(line) # "" THEN "> " \o line ELSE ">"

convertQuoteMarkup(t) ==
    ReplaceAllStringFunc(quotePattern, t,
        LAMBDA m, j :
            LET lines == Split(Group(t, m, 1), "\n")
            IN  Join([i \in 1..Len(lines) |-> quoteLine(lines[i])], "\n"))

\* (?i)\{color:(#[0-9a-fA-F]{6})\}\*\[\s*([^\]]+?)\s*\]\*\{color\}
statusLabelPattern ==
    <<IStr("{color:"), Open(1), Str("#"), Rep(Chr(HexClass), 6, 6, TRUE), Close(1),
      Str("}*["), Rep(Chr(SpaceClass), 0, -1, TRUE),
      Open(2), Rep(NotChr({"]"}), 1, -1, FALSE), Close(2),
      Rep(Chr(SpaceClass), 0, -1, TRUE), Str("]*"), IStr("{color}")>>

statusLabelColorMap(colorCode) ==
    CASE colorCode = "#ff991f" -> "status-label-warning"
      [] colorCode = "#00b8d9" -> "status-label-teal"
      [] colorCode = "#36b37e" -> "status-label-success"
      [] colorCode = "#ff5630" -> "status-label-danger"
      [] colorCode = "#6554c0" -> "status-label-purple"
      [] colorCode = "#97a0af" -> "status-label-gray"
      [] OTHER -> ""

convertStatusLabelMarkup(t) ==
    ReplaceAllStringFunc(statusLabelPattern, t,
        LAMBDA m, j :
            LET className == statusLabelColorMap(ToLower(Group(t, m, 1)))
                labelText == Group(t, m, 2)
            IN  IF className # ""
                THEN "<span class=\"status-label " \o className \o "\">" \o labelText
                     \o "</span>"
                ELSE "<span class=\"status-label\">" \o labelText \o "</span>")

\* (?s)\{color:([^}]+)\}(.*?)\{color\}
colorPattern ==
    <<Str("{color:"), Open(1), Rep(NotChr({"}"}), 1, -1, TRUE), Close(1), Str("}"),
      Open(2), Rep(DotAll, 0, -1, FALSE), Close(2), Str("{color}")>>

convertColorMarkup(t) ==
    ReplaceAllStringFunc(colorPattern, t,
        LAMBDA m, j :
            "<span style=\"color:" \o Group(t, m, 1) \o "\">" \o Group(t, m, 2)
            \o "</span>")

\* (?i)\{status(?::colou?r=([^}]+))?\}([^{]*)\{status\}
statusPattern ==
    <<IStr("{status"),
      Opt(<<IStr(":colo"), Rep(Chr({"u", "U"}), 0, 1, TRUE), IStr("r="),
            Open(1), Rep(NotChr({"}"}), 1, -1, TRUE), Close(1)>>),
      Str("}"), Open(2), Rep(NotChr({"{"}), 0, -1, TRUE), Close(2), IStr("{status}")>>

mapStatusColor(color) ==
    CASE color = "green" -> "status-green"
      [] color = "yellow" -> "status-yellow"
      [] color = "red" -> "status-red"
      [] color = "blue" -> "status-blue"
      [] color = "blue-gray" -> "status-blue"
      [] color = "grey" -> "status-gray"
      [] color = "gray" -> "status-gray"
      [] OTHER -> ""

convertStatusMarkup(t) ==
    ReplaceAllStringFunc(statusPattern, t,
        LAMBDA m, j :
            LET colorClass == mapStatusColor(ToLower(Group(t, m, 1)))
                body == Group(t, m, 2)
            IN  IF colorClass # ""
                THEN "<span class=\"status " \o colorClass \o "\">" \o body \o "</span>"
                ELSE "<span class=\"status\">" \o body \o "</span>")

getPanelClass(bgColor) ==
    LET low == ToLower(TrimSpace(bgColor))
        c == IF HasPrefix(low, "#") THEN low ELSE "#" \o low
    IN  CASE c = "#ffebe6" -> "panel-error"
          [] c = "#e3fcef" -> "panel-success"
          [] c = "#fffae6" -> "panel-warning"
          [] c = "#deebff" -> "panel-info"
          [] OTHER -> "panel-info"

\* (\w+)=([^|]+)
paramPattern ==
    <<Open(1), Rep(Chr(WordClass), 1, -1, TRUE), Close(1), Str("="),
      Open(2), Rep(NotChr({"|"}), 1, -1, TRUE), Close(2)>>

\* params[key] of parsePanelParams(paramStr): the value of the last key=value
\* pair with that key, "" when there is none
panelParam(paramStr, key) ==
    LET ms == FindAll(paramPattern, paramStr)
        hits == {j \in 1..Len(ms) : TrimSpace(Group(paramStr, ms[j], 1)) = key}
    IN  IF hits = {} THEN "" ELSE TrimSpace(Group(paramStr, ms[MaxOf(hits)], 2))

\* (?s)\{panel:([^}]+)\}(.*?)\{panel\}
panelWithParamsPattern ==
    <<Str("{panel:"), Open(1), Rep(NotChr({"}"}), 1, -1, TRUE), Close(1), Str("}"),
      Open(2), Rep(DotAll, 0, -1, FALSE), Close(2), Str("{panel}")>>

\* (?s)\{panel\}(.*?)\{panel\}
panelSimplePattern ==
    <<Str("{panel}"), Open(1), Rep(DotAll, 0, -1, FALSE), Close(1), Str("{panel}")>>

convertPanelMarkup(t) ==
    LET t1 == ReplaceAllStringFunc(panelWithParamsPattern, t,
                LAMBDA m, j :
                    LET paramStr == Group(t, m, 1)
                        content == Group(t, m, 2)
                        title == panelParam(paramStr, "title")
                        panelClass == getPanelClass(panelParam(paramStr, "bgColor"))
                    IN  IF title # ""
                        THEN "<div class=\"panel " \o panelClass
                             \o "\"><div class=\"panel-title\">" \o title
                             \o "</div><div class=\"panel-body\">" \o content
                             \o "</div></div>"
                        ELSE "<div class=\"panel " \o panelClass
                             \o "\"><div class=\"panel-body\">" \o content
                             \o "</div></div>")
    IN  ReplaceAllStringFunc(panelSimplePattern, t1,
            LAMBDA m, j :
                "<div class=\"panel panel-info\"><div class=\"panel-body\">"
                \o Group(t1, m, 1) \o "</div></div>")

getAdmonitionClass(admonitionType) ==
    CASE ToLower(admonitionType) = "note" -> "panel-note"
      [] ToLower(admonitionType) = "info" -> "panel-info"
      [] ToLower(admonitionType) = "warning" -> "panel-warning"
      [] ToLower(admonitionType) = "tip" -> "panel-success"
      [] OTHER -> "panel-info"

\* one pass of convertAdmonitionMarkup: (?s)\{TYPE\}(.*?)\{TYPE\}
convertAdmonition(t, adType) ==
    ReplaceAllStringFunc(
        <<Str("{" \o adType \o "}"), Open(1), Rep(DotAll, 0, -1, FALSE), Close(1),
          Str("{" \o adType \o "}")>>, t,
        LAMBDA m, j :
            "<div class=\"panel " \o getAdmonitionClass(adType)
            \o "\"><div class=\"panel-body\">" \o Group(t, m, 1) \o "</div></div>")

convertAdmonitionMarkup(t) ==
    convertAdmonition(convertAdmonition(convertAdmonition(convertAdmonition(
        t, "note"), "info"), "warning"), "tip")

\* step 5 of convertJIRAMarkupToMarkdown: the macro converters in its order
convertMacros(t) ==
    convertAdmonitionMarkup(convertPanelMarkup(convertStatusMarkup(
        convertColorMarkup(convertStatusLabelMarkup(convertQuoteMarkup(t))))))

---------------------------------------------------------------------------
(* Tables.                                                                 *)

\* strings.HasPrefix(line, "||") && strings.HasSuffix(line, "||")
isHeaderLine(line) == HasPrefix(line, "||") /\ HasSuffix(line, "||")

\* strings.HasPrefix(line, "|") && !strings.HasPrefix(line, "||")
isDataStart(line) == HasPrefix(line, "|") /\ ~HasPrefix(line, "||")

TablePlaceholder(i) == "__TABLE_" \o Itoa(i) \o "__"

\* extractJIRATables, a data row under a header: the following lines are
\* joined until the row ends with "|", stopping at a header line.  i is the
\* (1-based) index of the next line to read.
RECURSIVE joinRowUnderHeader(_, _, _)
joinRowUnderHeader(lines, i, completeLine) ==
    IF ~HasSuffix(completeLine, "|") /\ i <= Len(lines)
    THEN IF isHeaderLine(lines[i])
         THEN [line |-> completeLine, i |-> i]
         ELSE joinRowUnderHeader(lines, i + 1, completeLine \o "\n" \o lines[i])
    ELSE [line |-> completeLine, i |-> i]

\* extractJIRATables, a data row of a headerless table: joining also stops at
\* a line that starts with "|" and at an empty line
RECURSIVE joinRowHeaderless(_, _, _)
joinRowHeaderless(lines, i, completeLine) ==
    IF ~HasSuffix(completeLine, "|") /\ i <= Len(lines)
    THEN IF isHeaderLine(lines[i]) \/ HasPrefix(lines[i], "|") \/ lines[i] = ""
         THEN [line |-> completeLine, i |-> i]
         ELSE joinRowHeaderless(lines, i + 1, completeLine \o "\n" \o lines[i])
    ELSE [line |-> completeLine, i |-> i]

\* extractJIRATables, the data rows after a header line
RECURSIVE collectRowsUnderHeader(_, _, _)
collectRowsUnderHeader(lines, i, tableLines) ==
    IF i > Len(lines) THEN [tableLines |-> tableLines, i |-> i]
    ELSE IF isHeaderLine(lines[i]) THEN [tableLines |-> tableLines, i |-> i]
    ELSE IF isDataStart(lines[i])
    THEN LET r == joinRowUnderHeader(lines, i + 1, lines[i])
         IN  collectRowsUnderHeader(lines, r.i,
                 IF HasSuffix(r.line, "|") THEN Append(tableLines, r.line)
                 ELSE tableLines)
    ELSE [tableLines |-> tableLines, i |-> i]

\* extractJIRATables, the data rows of a headerless table
RECURSIVE collectRowsHeaderless(_, _, _)
collectRowsHeaderless(lines, i, tableLines) ==
    IF i > Len(lines) THEN [tableLines |-> tableLines, i |-> i]
    ELSE IF isDataStart(lines[i])
    THEN LET r == joinRowHeaderless(lines, i + 1, lines[i])
         IN  collectRowsHeaderless(lines, r.i,
                 IF HasSuffix(r.line, "|") THEN Append(tableLines, r.line)
                 ELSE tableLines)
    ELSE [tableLines |-> tableLines, i |-> i]

\* the main loop of extractJIRATables
RECURSIVE extractTablesFrom(_, _, _, _)
extractTablesFrom(lines, i, tables, result) ==
    IF i > Len(lines) THEN [text |-> Join(result, "\n"), tables |-> tables]
    ELSE IF isHeaderLine(lines[i])
    THEN LET r == collectRowsUnderHeader(lines, i + 1, <<lines[i]>>)
         IN  extractTablesFrom(lines, r.i, Append(tables, Join(r.tableLines, "\n")),
                               Append(result, TablePlaceholder(Len(tables))))
    ELSE IF isDataStart(lines[i])
    THEN LET r == collectRowsHeaderless(lines, i, <<>>)
         IN  IF Len(r.tableLines) > 0
             THEN extractTablesFrom(lines, r.i,
                                    Append(tables, Join(r.tableLines, "\n")),
                                    Append(result, TablePlaceholder(Len(tables))))
             ELSE extractTablesFrom(lines, r.i, tables, result)
    ELSE extractTablesFrom(lines, i + 1, tables, Append(result, lines[i]))

extractJIRATables(t) == extractTablesFrom(Split(t, "\n"), 1, <<>>, <<>>)

\* convertJIRATableToMarkdown: the following lines are joined until the row
\* ends with suffix ("|" for a data row, "||" for a header row)
RECURSIVE joinTableRow(_, _, _, _)
joinTableRow(lines, i, completeLine, suffix) ==
    IF ~HasSuffix(completeLine, suffix) /\ i <= Len(lines)
    THEN joinTableRow(lines, i + 1, completeLine \o "\n" \o lines[i], suffix)
    ELSE [line |-> completeLine, i |-> i]

\* "| " + strings.Join(cells, " | ") + " |"
tableRow(cells) == "| " \o Join(cells, " | ") \o " |"

separatorRow(n) == tableRow([k \in 1..n |-> "------"])

\* the cells of a complete row: strings.Trim(completeLine, "|") split at sep,
\* each line break of a cell turned into <br>
rowCells(completeLine, sep) ==
    LET cells == Split(TrimChar(completeLine, "|"), sep)
    IN  [j \in 1..Len(cells) |-> ReplaceAll(cells[j], "\n", "<br>")]

\* convertJIRATableToMarkdown: the blank header and the separator generated
\* for a table without a header line
emptyHeaderRows(lines) ==
    IF ~isHeaderLine(lines[1]) /\ isDataStart(lines[1])
    THEN LET r == joinTableRow(lines, 2, lines[1], "|")
         IN  IF HasSuffix(r.line, "|")
             THEN LET cellCount == Len(Split(TrimChar(r.line, "|"), "|"))
                  IN  <<tableRow([k \in 1..cellCount |-> " "]), separatorRow(cellCount)>>
             ELSE <<>>
    ELSE <<>>

\* the main loop of convertJIRATableToMarkdown
RECURSIVE convertTableRows(_, _, _)
convertTableRows(lines, i, result) ==
    IF i > Len(lines) THEN result
    ELSE IF HasPrefix(lines[i], "||")
    THEN LET r == joinTableRow(lines, i + 1, lines[i], "||")
         IN  IF HasSuffix(r.line, "||")
             THEN LET cells == rowCells(r.line, "||")
                  IN  convertTableRows(lines, r.i,
                          result \o <<tableRow(cells), separatorRow(Len(cells))>>)
             ELSE convertTableRows(lines, r.i, result)
    ELSE IF isDataStart(lines[i])
    THEN LET r == joinTableRow(lines, i + 1, lines[i], "|")
         IN  IF HasSuffix(r.line, "|")
             THEN convertTableRows(lines, r.i, Append(result, tableRow(rowCells(r.line, "|"))))
             ELSE convertTableRows(lines, r.i, result)
    ELSE convertTableRows(lines, i + 1, result)

convertJIRATableToMarkdown(table) ==
    LET lines == Split(table, "\n")
    IN  Join(convertTableRows(lines, 1, emptyHeaderRows(lines)), "\n")

\* step 6 of convertJIRAMarkupToMarkdown: for i, table := range tables
RECURSIVE replaceTables(_, _, _)
replaceTables(t, tables, i) ==
    IF i > Len(tables) THEN t
    ELSE replaceTables(ReplaceAll(t, TablePlaceholder(i - 1),
                                  convertJIRATableToMarkdown(tables[i])),
                       tables, i + 1)

convertTables(t) ==
    LET r == extractJIRATables(t)
    IN  replaceTables(r.text, r.tables, 1)

---------------------------------------------------------------------------
(* Mentions, links, headings, superscript, subscript, line breaks and the  *)
(* orchestrator.                                                           *)

\* \[~accountid:([^\]]+)\]
mentionPattern ==
    <<Str("[~accountid:"), Open(1), Rep(NotChr({"]"}), 1, -1, TRUE), Close(1), Str("]")>>

\* step 7: mapping (mw.userMapping) is a function from account ids to display names
convertMentions(t, mapping) ==
    ReplaceAllStringFunc(mentionPattern, t,
        LAMBDA m, j :
            LET accountID == Group(t, m, 1)
            IN  IF accountID \in DOMAIN mapping /\ mapping[accountID] # ""
                THEN "<span class=\"mention\">@" \o mapping[accountID] \o "</span>"
                ELSE "<span class=\"mention\">@" \o accountID \o "</span>")

\* \[([^\]|]+)\|([^\]]+)\]
linkPattern ==
    <<Str("["), Open(1), Rep(NotChr({"]", "|"}), 1, -1, TRUE), Close(1), Str("|"),
      Open(2), Rep(NotChr({"]"}), 1, -1, TRUE), Close(2), Str("]")>>

\* linkPattern.ReplaceAllString(text, `[$1]($2)`)
convertLinks(t) ==
    ReplaceAllStringFunc(linkPattern, t,
        LAMBDA m, j : "[" \o Group(t, m, 1) \o "](" \o Group(t, m, 2) \o ")")

\* ^h([1-6])\.\s+(.+)$
headingPattern ==
    <<Bol, Str("h"), Open(1), Chr({"1", "2", "3", "4", "5", "6"}), Close(1), Str("."),
      Rep(Chr(SpaceClass), 1, -1, TRUE), Open(2), Rep(Dot, 1, -1, TRUE), Close(2), Eol>>

\* strconv.Atoi of one digit
Atoi(d) ==
    CASE d = "1" -> 1 [] d = "2" -> 2 [] d = "3" -> 3 [] d = "4" -> 4
      [] d = "5" -> 5 [] d = "6" -> 6 [] d = "7" -> 7 [] d = "8" -> 8
      [] d = "9" -> 9 [] OTHER -> 0

HeadingPlaceholder(i) == "__HEADING_" \o Itoa(i) \o "__"

\* hashes + " " + title of a heading line
headingOf(line) ==
    LET m == FindFirst(headingPattern, line)
    IN  Repeat("#", Atoi(Group(line, m, 1))) \o " " \o Group(line, m, 2)

\* step 8-1: every heading line becomes a placeholder numbered in order of
\* appearance and its Markdown form is stored
protectHeadings(t) ==
    LET lines == Split(t, "\n")
        isHeading == [i \in 1..Len(lines) |-> MatchString(headingPattern, lines[i])]
        rank(i) == Cardinality({k \in 1..i : isHeading[k]})
        headingLines == SelectSeq([i \in 1..Len(lines) |-> <<i, lines[i]>>],
                                  LAMBDA e : isHeading[e[1]])
    IN  [text |-> Join([i \in 1..Len(lines) |->
                          IF isHeading[i] THEN HeadingPlaceholder(rank(i) - 1)
                          ELSE lines[i]], "\n"),
         headings |-> [k \in 1..Len(headingLines) |-> headingOf(headingLines[k][2])]]

\* step 8-3: for i, heading := range headings { strings.ReplaceAll(...) }
RECURSIVE restoreHeadings(_, _, _)
restoreHeadings(t, headings, i) ==
    IF i > Len(headings) THEN t
    ELSE restoreHeadings(ReplaceAll(t, HeadingPlaceholder(i - 1), headings[i]),
                         headings, i + 1)

\* \^([^\^]+)\^
supPattern ==
    <<Str("^"), Open(1), Rep(NotChr({"^"}), 1, -1, TRUE), Close(1), Str("^")>>

\* step 12: supPattern.ReplaceAllString(text, `<sup>$1</sup>`)
convertSuperscript(t) ==
    ReplaceAllStringFunc(supPattern, t,
        LAMBDA m, j : "<sup>" \o Group(t, m, 1) \o "</sup>")

\* ~~[^~]*~~
strikeProtectPattern == <<Str("~~"), Rep(NotChr({"~"}), 0, -1, TRUE), Str("~~")>>

\* ~([^~]+?)~
subPattern ==
    <<Str("~"), Open(1), Rep(NotChr({"~"}), 1, -1, FALSE), Close(1), Str("~")>>

StrikePlaceholder(i) == "___STRIKE_PROTECT_" \o Itoa(i) \o "___"

\* for i, strike := range strikes { strings.Replace(text, placeholder, strike, 1) }
RECURSIVE restoreStrikes(_, _, _)
restoreStrikes(t, strikes, i) ==
    IF i > Len(strikes) THEN t
    ELSE restoreStrikes(ReplaceFirst(t, StrikePlaceholder(i - 1), strikes[i]),
                        strikes, i + 1)

\* step 13: the ~~...~~ runs are set aside, ~text~ becomes <sub>text</sub>,
\* and the runs are put back
convertSubscript(t) ==
    LET ms == FindAll(strikeProtectPattern, t)
        strikes == [j \in 1..Len(ms) |-> SubSeq(t, ms[j].start, ms[j].end - 1)]
        t1 == Splice(t, ms, [j \in 1..Len(ms) |-> StrikePlaceholder(j - 1)], 1, 1)
        t2 == ReplaceAllStringFunc(subPattern, t1,
                  LAMBDA m, j : "<sub>" \o Group(t1, m, 1) \o "</sub>")
    IN  restoreStrikes(t2, strikes, 1)

\* (.+)\n
newlinePattern == <<Open(1), Rep(Dot, 1, -1, TRUE), Close(1), Str("\n")>>

\* step 15: newlinePattern.ReplaceAllString(text, "$1  \n")
convertNewlines(t) ==
    ReplaceAllStringFunc(newlinePattern, t,
        LAMBDA m, j : Group(t, m, 1) \o "  \n")

---------------------------------------------------------------------------
(* The list functions as a state machine: a text is protected and then     *)
(* restored, or converted.                                                 *)

NoRewrite == [none |-> TRUE]

\* a MarkdownWriter without user mapping
NoUsers == <<>>

ListAlphabet == {"*", "#", " ", "a", "\n"}

\* a marker run of 1 to 6 (and more) markers between optional white space
MarkerLines ==
    {lead \o Repeat(m, n) \o sep \o content :
        lead \in {"", " ", "\t"}, m \in {"*", "#"},
        n \in 1..(MaxListLevel + MaxExtraMarkers),
        sep \in {"", " ", " \t"}, content \in {"", "a", "a b", " "}}

ListTexts == Strings(ListAlphabet, MaxListLen) \cup MarkerLines

InitList ==
    /\ pc = "start"
    /\ input \in ListTexts
    /\ userMapping = NoUsers
    /\ source = <<>>
    /\ text = input
    /\ vault = <<>>
    /\ saved = ""
    /\ rewrite = NoRewrite
    /\ NoBatch

ProtectListLines ==
    /\ pc = "start"
    /\ LET r == protectListLines(input)
       IN  /\ text' = r.text
           /\ vault' = r.protected
    /\ pc' = "protected"
    /\ UNCHANGED <<batch, userMapping, source, input, saved, rewrite>>

RestoreListLines ==
    /\ pc = "protected"
    /\ text' = restoreListLines(text, vault)
    /\ pc' = "restored"
    /\ UNCHANGED <<batch, userMapping, source, input, vault, saved, rewrite>>

ConvertLists ==
    /\ pc = "start"
    /\ text' = convertJIRAListsToMarkdown(input)
    /\ pc' = "listed"
    /\ UNCHANGED <<batch, userMapping, source, input, vault, saved, rewrite>>

NextList == ProtectListLines \/ RestoreListLines \/ ConvertLists

SpecList == InitList /\ [][NextList]_vars

\* C1: restoreListLines(protectListLines(text)) returns the original text,
\* whatever line indices the list lines occupy.
C1_RestoreReturnsOriginal == pc = "restored" => text = input

\* What C8 expects of one line, read off the line without the patterns: the
\* marker run after the leading white space, the white space after it, and
\* the content (when only white space follows the run, its last character).
LeadingRun(s, c) == Len(s) - Len(TrimLeftChar(s, c))

ListLineExpected(line) ==
    LET body == TrimSpaceLeft(line)
        m == IF body = "" THEN "" ELSE Head(body)
        n == LeadingRun(body, m)
        after == SubSeq(body, n + 1, Len(body))
        content == IF TrimSpaceLeft(after) = "" THEN CharAt(after, Len(after))
                   ELSE TrimSpaceLeft(after)
    IN  IF /\ m \in {"*", "#"}
           /\ n <= 6
           /\ Len(after) >= 2
           /\ Head(after) \in SpaceClass
        THEN Repeat("    ", n - 1) \o (IF m = "*" THEN "- " ELSE "1. ") \o content
        ELSE line

ListTextExpected(t) ==
    LET lines == Split(t, "\n")
    IN  Join([i \in 1..Len(lines) |-> ListLineExpected(lines[i])], "\n")

---------------------------------------------------------------------------
(* convertBoldMarkup applied once and then again to its own result.        *)

BoldAlphabet == {"*", "a", "\n"}

InitBold ==
    /\ pc = "start"
    /\ input \in Strings(BoldAlphabet, MaxBoldLen)
    /\ userMapping = NoUsers
    /\ source = <<>>
    /\ text = input
    /\ vault = <<>>
    /\ saved = ""
    /\ rewrite = NoRewrite
    /\ NoBatch

ConvertBold ==
    /\ pc = "start"
    /\ text' = convertBoldMarkup(input)
    /\ pc' = "once"
    /\ UNCHANGED <<batch, userMapping, source, input, vault, saved, rewrite>>

ConvertBoldAgain ==
    /\ pc = "once"
    /\ saved' = text
    /\ text' = convertBoldMarkup(text)
    /\ pc' = "twice"
    /\ UNCHANGED <<batch, userMapping, source, input, vault, rewrite>>

NextBold == ConvertBold \/ ConvertBoldAgain

SpecBold == InitBold /\ [][NextBold]_vars

\* C6: convertBoldMarkup(convertBoldMarkup(x)) = convertBoldMarkup(x).
C6_BoldIdempotent == pc = "twice" => text = saved

\* two spans of one line were made bold, and the second application kept them
C6_Witness ==
    /\ pc = "twice"
    /\ input = "*a*a*a*"
    /\ saved = "**a**a**a**"
    /\ text = saved

---------------------------------------------------------------------------
(* The loop of convertStrikethroughMarkup on one line, a round per step.   *)

StrikeAlphabet == {"-", "a", "1", "/", ":", ";", "%", " ", "~"}

\* what may stand right before and right after a candidate
StrikeAround == {"", "a", "Z", "1", "-", "/", ":", ";", "%", " ", "~", "~~", "a~~", "~~a"}

\* one candidate -t- between two surroundings
\* what a candidate may hold between its two "-"
StrikeContents == {"a", "\t", "a\tb", "a b", " "}

StrikeCandidates ==
    {l \o "-" \o t \o "-" \o r :
        l \in StrikeAround, r \in StrikeAround, t \in StrikeContents}

StrikeLines == Strings(StrikeAlphabet, MaxStrikeLen) \cup StrikeCandidates

InitStrike ==
    /\ pc = "scan"
    /\ input \in StrikeLines
    /\ userMapping = NoUsers
    /\ source = <<>>
    /\ text = input
    /\ vault = <<>>
    /\ saved = ""
    /\ rewrite = NoRewrite
    /\ NoBatch

\* one round: the scan rewrites a match and the line is scanned again, or it
\* rewrites nothing and the loop ends
StrikeRound ==
    /\ pc = "scan"
    /\ LET r == StrikeScan(text)
       IN  IF r.found
           THEN /\ text' = r.line
                /\ rewrite' = [none |-> FALSE, before |-> text,
                               start |-> r.start, end |-> r.end]
                /\ pc' = "scan"
           ELSE /\ pc' = "done"
                /\ UNCHANGED <<text, rewrite>>
    /\ UNCHANGED <<batch, userMapping, source, input, vault, saved>>

NextStrike == StrikeRound

SpecStrike == InitStrike /\ [][NextStrike]_vars

\* the character right before / right after the rewritten span ("" at an end
\* of the line), and the content between its two "-"
RewriteBefore ==
    IF rewrite.start > 1 THEN CharAt(rewrite.before, rewrite.start - 1) ELSE ""
RewriteAfter ==
    IF rewrite.end <= Len(rewrite.before) THEN CharAt(rewrite.before, rewrite.end) ELSE ""
RewriteContent == SubSeq(rewrite.before, rewrite.start + 1, rewrite.end - 2)
RewriteEnclosed ==
    /\ rewrite.start > 2
    /\ SubSeq(rewrite.before, rewrite.start - 2, rewrite.start - 1) = "~~"
    /\ rewrite.end + 1 <= Len(rewrite.before)
    /\ SubSeq(rewrite.before, rewrite.end, rewrite.end + 1) = "~~"

AsciiAlnum == Digits \cup LowerLetters \cup UpperLetters

\* C10 as claimed: no rewrite of a -t- candidate whose boundary character is
\* an ASCII letter or digit or one of - / : ; nor of white-space-only content,
\* nor of a candidate enclosed in ~~...~~.
C10_AsClaimed ==
    rewrite.none \/
      /\ RewriteBefore \notin AsciiAlnum \cup {"-", "/", ":", ";"}
      /\ RewriteAfter \notin AsciiAlnum \cup {"-", "/", ":", ";"}
      /\ TrimSpace(RewriteContent) # ""
      /\ ~RewriteEnclosed

\* C10 amended: the boundary symbols that block a rewrite are - / : alone.
C10_NoRewriteAtBoundary ==
    rewrite.none \/
      /\ RewriteBefore \notin AsciiAlnum \cup {"-", "/", ":"}
      /\ RewriteAfter \notin AsciiAlnum \cup {"-", "/", ":"}
      /\ TrimSpace(RewriteContent) # ""
      /\ ~RewriteEnclosed

\* a candidate between two ";" was rewritten
C10_Witness ==
    /\ pc = "done"
    /\ input = ";-a-;"
    /\ text = ";~~a~~;"

---------------------------------------------------------------------------
(* The macro stage applied once and then again to its own output.          *)

\* how many pieces a macro text is written from
MaxMacroParts == 4

MacroPieces == {"{color:a}", "{color:b}", "{color}", "x", "{quote}", "{status}"}

MacroTexts == Strings(MacroPieces, MaxMacroParts)

InitMacro ==
    /\ pc = "start"
    /\ input \in MacroTexts
    /\ userMapping = NoUsers
    /\ source = <<>>
    /\ text = input
    /\ vault = <<>>
    /\ saved = ""
    /\ rewrite = NoRewrite
    /\ NoBatch

ConvertMacros ==
    /\ pc = "start"
    /\ text' = convertMacros(input)
    /\ pc' = "once"
    /\ UNCHANGED <<batch, userMapping, source, input, vault, saved, rewrite>>

ConvertMacrosAgain ==
    /\ pc = "once"
    /\ saved' = text
    /\ text' = convertMacros(text)
    /\ pc' = "twice"
    /\ UNCHANGED <<batch, userMapping, source, input, vault, rewrite>>

NextMacro == ConvertMacros \/ ConvertMacrosAgain

SpecMacro == InitMacro /\ [][NextMacro]_vars

\* C5: the macro stage is idempotent: a second run of the macro converters
\* on their own output changes nothing, nested macros of one name included
C5_MacroIdempotent == pc = "twice" => text = saved

---------------------------------------------------------------------------
(* The table stage applied once and again, and the table converter applied *)
(* to a table of a given shape.                                            *)

\* longest free text over the table alphabet
MaxTableLen == 6
\* most data rows and most columns of a shaped table
MaxRows == 2
MaxCols == 2

TableAlphabet == {"|", "a", "\n"}

\* what the one distinguished cell of a shaped table holds: plain text,
\* nothing, or a link
SpecialCells == {"a", "", "[t|u]"}

\* a table with or without header row (row 0), rows data rows and cols
\* columns; the cell at `at` holds `special`, every other cell "a"
TableShapes ==
    {[kind |-> "shape", header |-> h, rows |-> r, cols |-> c, at |-> <<ar, ac>>,
      special |-> sp] :
        h \in BOOLEAN, r \in 1..MaxRows, c \in 1..MaxCols,
        ar \in 0..MaxRows, ac \in 1..MaxCols, sp \in SpecialCells}

ShapeOk(sh) ==
    /\ sh.at[1] <= sh.rows
    /\ sh.at[2] <= sh.cols
    /\ (sh.at[1] = 0 => sh.header)

ShapeCell(sh, r, c) == IF sh.at = <<r, c>> THEN sh.special ELSE "a"

\* the JIRA source of a shaped table: ||c||c|| for the header, |c|c| per row
TableSource(sh) ==
    LET headerLine == "||" \o Join([c \in 1..sh.cols |-> ShapeCell(sh, 0, c)], "||") \o "||"
        dataLine(r) == "|" \o Join([c \in 1..sh.cols |-> ShapeCell(sh, r, c)], "|") \o "|"
        dataLines == [r \in 1..sh.rows |-> dataLine(r)]
    IN  Join((IF sh.header THEN <<headerLine>> ELSE <<>>) \o dataLines, "\n")

FreeText == [kind |-> "free"]

InitTable ==
    /\ pc = "start"
    /\ \/ /\ source = FreeText
          /\ input \in Strings(TableAlphabet, MaxTableLen)
       \/ /\ source \in {sh \in TableShapes : ShapeOk(sh)}
          /\ input = TableSource(source)
    /\ userMapping = NoUsers
    /\ text = input
    /\ vault = <<>>
    /\ saved = ""
    /\ rewrite = NoRewrite
    /\ NoBatch

\* step 6 of convertJIRAMarkupToMarkdown
TableStage ==
    /\ pc = "start"
    /\ text' = convertTables(input)
    /\ pc' = "once"
    /\ UNCHANGED <<batch, userMapping, source, input, vault, saved, rewrite>>

TableStageAgain ==
    /\ pc = "once"
    /\ saved' = text
    /\ text' = convertTables(text)
    /\ pc' = "twice"
    /\ UNCHANGED <<batch, userMapping, source, input, vault, rewrite>>

ConvertTable ==
    /\ pc = "start"
    /\ text' = convertJIRATableToMarkdown(input)
    /\ pc' = "converted"
    /\ UNCHANGED <<batch, userMapping, source, input, vault, saved, rewrite>>

NextTable == TableStage \/ TableStageAgain \/ ConvertTable

SpecTable == InitTable /\ [][NextTable]_vars

\* C4: the table stage is idempotent: applied to text that is already its
\* own output it yields exactly the same text
C4_TableStageIdempotent == pc = "twice" => text = saved

\* the number of cells of a rendered row | c | c |
RenderedCells(line) == Len(Split(line, "|")) - 2

\* C7: a table whose rows all have the same number of cells is rendered as a
\* header row, one separator row and one row per data row, each with the
\* source's number of cells, also when a first or last cell is empty or a
\* cell holds a [text|url] link
C7_TableShape ==
    pc = "converted" /\ source.kind = "shape" =>
        LET out == Split(text, "\n")
        IN  /\ Len(out) = source.rows + 2
            /\ \A i \in 1..Len(out) : RenderedCells(out[i]) = source.cols
            /\ out[2] = separatorRow(source.cols)

---------------------------------------------------------------------------
(* Attachments: stored file names and the image references of a section.   *)

\* sanitizeFilename without the pair "..", "_" of the replacer
RECURSIVE sanitizeFilenameKeepDots(_)
sanitizeFilenameKeepDots(filename) ==
    IF filename = "" THEN ""
    ELSE IF HasPrefix(filename, "/") \/ HasPrefix(filename, "\\") \/ HasPrefix(filename, ":")
         THEN "_" \o sanitizeFilenameKeepDots(Tail(filename))
    ELSE CharAt(filename, 1) \o sanitizeFilenameKeepDots(Tail(filename))

\* strings.NewReplacer("/", "_", "\\", "_", "..", "_", ":", "_").Replace: at
\* each position the first old string that matches is replaced, and the scan
\* goes on after it
RECURSIVE sanitizeFilename(_)
sanitizeFilename(filename) ==
    IF filename = "" THEN ""
    ELSE IF HasPrefix(filename, "/") \/ HasPrefix(filename, "\\") \/ HasPrefix(filename, ":")
         THEN "_" \o sanitizeFilename(Tail(filename))
    ELSE IF HasPrefix(filename, "..")
         THEN "_" \o sanitizeFilename(Tail(Tail(filename)))
    ELSE CharAt(filename, 1) \o sanitizeFilename(Tail(filename))

\* downloadFile: fmt.Sprintf("%s_%s", issueKey, safeFilename)
storedFilename(issueKey, filename) == issueKey \o "_" \o sanitizeFilename(filename)

\* filepath.Ext: the suffix from the last dot of the last path element
RECURSIVE Ext(_)
Ext(path) ==
    IF path = "" THEN ""
    ELSE LET last == CharAt(path, Len(path))
         IN  IF last = "/" THEN ""
             ELSE IF last = "." THEN "."
             ELSE LET e == Ext(SubSeq(path, 1, Len(path) - 1))
                  IN  IF e = "" THEN "" ELSE e \o last

imageExts == {".png", ".jpg", ".jpeg", ".gif", ".svg", ".webp", ".bmp", ".ico"}

IsImageFile(filename) == ToLower(Ext(filename)) \in imageExts

\* url.PathEscape on one character: letters, digits and - _ . ~ $ & + : = @
\* stand, every other byte becomes %XX
escapeChar(c) ==
    IF c \in Digits \cup LowerLetters \cup UpperLetters
             \cup {"-", "_", ".", "~", "$", "&", "+", ":", "=", "@"}
    THEN c
    ELSE CASE c = " " -> "%20"
           [] c = "*" -> "%2A"
           [] c = "!" -> "%21"
           [] c = "/" -> "%2F"
           [] c = "|" -> "%7C"

RECURSIVE PathEscape(_)
PathEscape(s) ==
    IF s = "" THEN "" ELSE escapeChar(CharAt(s, 1)) \o PathEscape(Tail(s))

\* !([^!|]+(?:\.[a-zA-Z0-9]+))(?:\|[^!]*)?!
imagePattern ==
    <<Str("!"), Open(1), Rep(NotChr({"!", "|"}), 1, -1, TRUE), Str("."),
      Rep(Chr(Digits \cup LowerLetters \cup UpperLetters), 1, -1, TRUE), Close(1),
      Opt(<<Str("|"), Rep(NotChr({"!"}), 0, -1, TRUE)>>), Str("!")>>

\* the replacement of one image reference: the Markdown image or link of the
\* stored file, or the match itself when the name is no key of the map
imageReference(t, m, attachmentMap) ==
    LET originalFilename == Group(t, m, 1)
    IN  IF originalFilename \notin DOMAIN attachmentMap
        THEN SubSeq(t, m.start, m.end - 1)
        ELSE (IF IsImageFile(originalFilename) THEN "!" ELSE "")
             \o "[" \o originalFilename \o "](/attachments/"
             \o PathEscape(attachmentMap[originalFilename]) \o ")"

replaceImageReferences(t, attachmentMap) ==
    ReplaceAllStringFunc(imagePattern, t,
        LAMBDA m, j : imageReference(t, m, attachmentMap))

\* buildAttachmentMap: the i-th attachment of the issue is mapped to the i-th
\* stored file name, as far as the list of stored files goes; a later
\* attachment of the same name overwrites an earlier one
buildAttachmentMap(attachments, files) ==
    LET n == IF Len(files) < Len(attachments) THEN Len(files) ELSE Len(attachments)
    IN  [f \in {attachments[i].filename : i \in 1..n} |->
            files[CHOOSE i \in 1..n :
                    /\ attachments[i].filename = f
                    /\ \A j \in (i + 1)..n : attachments[j].filename # f]]

---------------------------------------------------------------------------
(* convertJIRAMarkupToMarkdown as a state machine: pc names the step that  *)
(* runs next, text is the local variable text, vault the slices the        *)
(* protect steps fill.                                                     *)

\* how many characters of free context surround a token
MaxAround == 2
\* how many plain lines precede a heading
MaxPlainLines == 2

EmptyVault ==
    [codeBlocks |-> <<>>, inlineCodes |-> <<>>, headings |-> <<>>,
     protectedLists |-> <<>>]

SomeUsers ==
    [id \in {"u1", "u2", "u3"} |->
        IF id = "u1" THEN "Taro" ELSE IF id = "u2" THEN "" ELSE "t_a_ro"]

\* date-like and URL-path tokens
Tokens == {"2025-01-14", "/path-to-page"}

TokenAlphabet == {"-", "a", " "}

\* what may stand before and after a token: free context and strikethrough
\* candidates
TokenAround ==
    Strings(TokenAlphabet, MaxAround)
    \cup {"-a-", "-a- ", " -a-", "~~", "~~-", "-~~", "a-a"}

TokenSources ==
    {[kind |-> "token", pre |-> a, token |-> tok, post |-> b] :
        a \in TokenAround, tok \in Tokens, b \in TokenAround}

\* a heading of the given level after `before` plain lines, and possibly a
\* second heading (of level `second`) separated from it by a plain line
HeadingSources ==
    {[kind |-> "heading", before |-> k, level |-> n, second |-> m] :
        k \in 0..MaxPlainLines, n \in 1..6, m \in {0, 2}}

CodeDelimiters ==
    {<<"{code}", "{code}">>, <<"{code:go}", "{code}">>,
     <<"{noformat}", "{noformat}">>, <<"{{", "}}">>}

CodeBodies == {"a", "a b", "*a*", "-a- _b_", "a\nb", "a\n\n*b*"}

CodeSources ==
    {[kind |-> "code", open |-> d[1], close |-> d[2], body |-> b, pre |-> a,
      post |-> c] :
        d \in CodeDelimiters, b \in CodeBodies, a \in {"", "x ", "x\n"},
        c \in {"", " y", "\ny"}}

MiscTexts ==
    {"[~accountid:u1] and [~accountid:u9]", "[t|http://u]", "a^2^ b~3~ ~~c~~",
     "||h||k||\n|a|b|", "{color:red}x{color}", "* a\n** b\n# c", "*b* _i_ -s-"}

MiscSources == {[kind |-> "misc", text |-> t] : t \in MiscTexts}

\* an opening delimiter on one line and its closing delimiter on the next
SplitDelimiters == {"*", "_", "-", "^", "~"}

SplitSources ==
    {[kind |-> "split", delim |-> d, first |-> f, last |-> l] :
        d \in SplitDelimiters, f \in {"a", "a b"}, l \in {"b", "a b"}}

\* the key of the issue whose description is rendered
IssueKey == "K-1"

ImageNames == {"a.png", "a.PNG", "a.txt", "a b.jpeg", "a-b-c.gif", "a_b_c.png", "a_b_c.txt"}

\* an image reference !f! or !f|attrs! whose file is or is not an attachment
ImageSources ==
    {[kind |-> "image", name |-> f, attrs |-> at, mapped |-> k, pre |-> a, post |-> b] :
        f \in ImageNames, at \in {"", "|width=300"}, k \in BOOLEAN,
        a \in {"", "x "}, b \in {"", " y"}}

\* account ids: mapped to a name, mapped to the empty name, mapped to a name
\* with underscores, and unmapped ones
MentionIds == {"u1", "u2", "u3", "u9", "557058:6e-9b9b-4a", "a_b_c"}

\* one mention, or two of them with " and " between, in plain text
MentionSources ==
    {[kind |-> "mention", ids |-> ids, pre |-> a, post |-> b] :
        ids \in {<<i>> : i \in MentionIds} \cup {<<i, j>> : i \in MentionIds, j \in {"u1", "u9"}},
        a \in {"", "x "}, b \in {"", " y"}}

\* the placeholder families: the prefix of the token, and a span of the
\* source the pipeline protects with a token of the family
PlaceholderFamilies ==
    {[prefix |-> "__CODE_BLOCK_", suffix |-> "__", span |-> "{code}a{code}"],
     [prefix |-> "__INLINE_CODE_", suffix |-> "__", span |-> "{{a}}"],
     [prefix |-> "__TABLE_", suffix |-> "__", span |-> "||h||\n|a|"],
     [prefix |-> "__HEADING_", suffix |-> "__", span |-> "h1. a"],
     [prefix |-> "___LIST_PLACEHOLDER_", suffix |-> "___", span |-> "* a"]}

\* a token of a family written literally by the user, on the line before or
\* after a span of the family; the pipeline numbers its own tokens from 0
LiteralSources ==
    {[kind |-> "literal", prefix |-> fam.prefix,
      token |-> fam.prefix \o Itoa(i) \o fam.suffix, span |-> fam.span, first |-> f] :
        fam \in PlaceholderFamilies, i \in {0, 5}, f \in BOOLEAN}

\* link targets: plain, and with the delimiters of the decoration passes
LinkTargets ==
    {"http://u", "http://u/a-b", "http://u/a_b_c", "http://u/a*b*c", "http://u/x -a- y",
     "http://u/a^b^c", "http://u/a~b~c"}

\* one link [text|url] in plain text
LinkSources ==
    {[kind |-> "link", label |-> t, url |-> u, pre |-> a, post |-> b] :
        t \in {"t", "a b"}, u \in LinkTargets, a \in {"", "x "}, b \in {"", " y"}}

ConvertSources ==
    TokenSources \cup HeadingSources \cup CodeSources \cup MiscSources \cup SplitSources
    \cup ImageSources \cup MentionSources \cup LiteralSources \cup LinkSources

\* the body the server sends for an attachment, and what is in the file
\* when the transfer breaks off
Body == "new"
Partial == "ne"

\* the attachment list of the issue whose description is converted
\* (issue.Fields.Attachments)
IssueAttachments ==
    IF source.kind = "image" THEN <<[filename |-> source.name, status |-> 200, body |-> Body, cut |-> FALSE]>>
    ELSE IF source.kind = "batch" THEN source.issues[cursor].attachments
    ELSE <<>>

\* the issue of an image source has its one attachment downloaded or not
ImageAttachmentFiles(src) ==
    IF src.kind = "image" /\ src.mapped
    THEN <<storedFilename(IssueKey, src.name)>> ELSE <<>>


HeadingTitle == "Title"

SourceText(src) ==
    CASE src.kind = "token" -> src.pre \o src.token \o src.post
      [] src.kind = "heading" ->
           Join([i \in 1..src.before |-> "x"]
                \o <<"h" \o Itoa(src.level) \o ". " \o HeadingTitle>>
                \o (IF src.second > 0
                    THEN <<"y", "h" \o Itoa(src.second) \o ". " \o HeadingTitle>>
                    ELSE <<>>), "\n")
      [] src.kind = "code" -> src.pre \o src.open \o src.body \o src.close \o src.post
      [] src.kind = "misc" -> src.text
      [] src.kind = "image" ->
           src.pre \o "!" \o src.name \o src.attrs \o "!" \o src.post
      [] src.kind = "mention" ->
           src.pre
           \o Join([i \in 1..Len(src.ids) |-> "[~accountid:" \o src.ids[i] \o "]"], " and ")
           \o src.post
      [] src.kind = "link" ->
           src.pre \o "[" \o src.label \o "|" \o src.url \o "]" \o src.post
      [] src.kind = "literal" ->
           IF src.first THEN src.token \o "\n" \o src.span
           ELSE src.span \o "\n" \o src.token
      [] src.kind = "split" -> src.delim \o src.first \o "\n" \o src.last \o src.delim

InitConvert ==
    /\ pc = "protectCode"
    /\ source \in ConvertSources
    /\ input = SourceText(source)
    /\ userMapping = SomeUsers
    /\ text = input
    /\ vault = EmptyVault
    /\ saved = ""
    /\ rewrite = NoRewrite
    /\ cursor = 0
    /\ disk = <<>>
    /\ calls = <<>>
    /\ written = <<>>
    /\ downloaded = NoDownload
    /\ attachmentFiles = ImageAttachmentFiles(source)
    /\ NoSearch

\* a step that only rewrites text
Step(from, to, t) ==
    /\ pc = from
    /\ pc' = to
    /\ text' = t
    /\ UNCHANGED <<batch, userMapping, source, input, vault, saved, rewrite>>

\* steps 1 to 4
StepProtectCode ==
    /\ pc = "protectCode"
    /\ LET r == protectCode(text)
       IN  /\ text' = r.text
           /\ vault' = [vault EXCEPT !.codeBlocks = r.codeBlocks,
                                     !.inlineCodes = r.inlineCodes]
    /\ pc' = "macros"
    /\ UNCHANGED <<batch, userMapping, source, input, saved, rewrite>>

\* step 5
StepMacros == Step("macros", "tables", convertMacros(text))

\* step 6
StepTables == Step("tables", "mentions", convertTables(text))

\* step 7, mentions
StepMentions == Step("mentions", "links", convertMentions(text, userMapping))

\* step 7, links
StepLinks == Step("links", "protectHeadings", convertLinks(text))

\* step 8-1
StepProtectHeadings ==
    /\ pc = "protectHeadings"
    /\ LET r == protectHeadings(text)
       IN  /\ text' = r.text
           /\ vault' = [vault EXCEPT !.headings = r.headings]
    /\ pc' = "lists"
    /\ UNCHANGED <<batch, userMapping, source, input, saved, rewrite>>

\* step 8-2
StepLists == Step("lists", "restoreHeadings", convertJIRAListsToMarkdown(text))

\* step 8-3
StepRestoreHeadings ==
    Step("restoreHeadings", "protectLists", restoreHeadings(text, vault.headings, 1))

\* step 8-4
StepProtectLists ==
    /\ pc = "protectLists"
    /\ LET r == protectListLines(text)
       IN  /\ text' = r.text
           /\ vault' = [vault EXCEPT !.protectedLists = r.protected]
    /\ pc' = "bold"
    /\ UNCHANGED <<batch, userMapping, source, input, saved, rewrite>>

\* step 9
StepBold == Step("bold", "italic", convertBoldMarkup(text))

\* step 10
StepItalic == Step("italic", "strike", convertItalicMarkup(text))

\* step 11
StepStrike == Step("strike", "superscript", convertStrikethroughMarkup(text))

\* step 12
StepSuperscript == Step("superscript", "subscript", convertSuperscript(text))

\* step 13
StepSubscript == Step("subscript", "restoreLists", convertSubscript(text))

\* step 8-5
StepRestoreLists ==
    Step("restoreLists", "restoreCode", restoreListLines(text, vault.protectedLists))

\* step 14
StepRestoreCode ==
    Step("restoreCode", "newlines",
         restoreInlineCodes(restoreCodeBlocks(text, vault.codeBlocks, 1),
                            vault.inlineCodes, 1))

\* step 15; the function returns
StepNewlines == Step("newlines", "done", convertNewlines(text))

\* generateDescription / generateComments after the conversion:
\* replaceImageReferences(description, attachmentMap)
StepImageReferences ==
    Step("done", "rendered", replaceImageReferences(text, buildAttachmentMap(IssueAttachments, attachmentFiles)))

NextConvert ==
    \/ StepProtectCode \/ StepMacros \/ StepTables \/ StepMentions \/ StepLinks
    \/ StepProtectHeadings \/ StepLists \/ StepRestoreHeadings \/ StepProtectLists
    \/ StepBold \/ StepItalic \/ StepStrike \/ StepSuperscript \/ StepSubscript
    \/ StepRestoreLists \/ StepRestoreCode \/ StepNewlines \/ StepImageReferences

SpecConvert == InitConvert /\ [][NextConvert]_vars

\* the lines of the output, without the two spaces step 15 puts before a
\* line break
OutputLines ==
    LET lines == Split(text, "\n")
    IN  {IF HasSuffix(lines[i], "  ") /\ i < Len(lines)
         THEN SubSeq(lines[i], 1, Len(lines[i]) - 2) ELSE lines[i] :
            i \in 1..Len(lines)}

\* C2: a source line hN. title appears in the output as N "#", a space and
\* the title, wherever the heading stands and also when a second heading
\* follows after another line, and the output holds no ___LIST_PLACEHOLDER_
\* and no __HEADING_ token
C2_HeadingsConverted ==
    pc = "done" /\ source.kind = "heading" =>
        /\ Repeat("#", source.level) \o " " \o HeadingTitle \in OutputLines
        /\ source.second > 0 =>
               Repeat("#", source.second) \o " " \o HeadingTitle \in OutputLines
        /\ ~Contains(text, "___LIST_PLACEHOLDER_")
        /\ ~Contains(text, "__HEADING_")

\* C3: the content of a {code}, {code:lang}, {noformat} or {{inline}} span
\* stands in the output character for character as in the source, multi-line
\* bodies included
C3_CodeContentKept ==
    pc = "done" /\ source.kind = "code" => Contains(text, source.body)

---------------------------------------------------------------------------
(* The loops of convertBoldMarkup and convertItalicMarkup on one line, a   *)
(* round per step, with the rewrite each round applied.                    *)

\* longest free line over the decoration alphabet
MaxDecoLen == 6

DecoAlphabet == {"*", "_", "a"}

\* lines in which a delimiter stands next to a copy of itself
AdjacentExamples == {"***x***", "__x__", "**", "*a**b*", "__", "_a__b_", "___x___"}

DecoLines == Strings(DecoAlphabet, MaxDecoLen) \cup AdjacentExamples

DecoKinds == {"bold", "italic"}

DecoDelimiter == IF source.kind = "bold" THEN "*" ELSE "_"

InitDeco ==
    /\ pc = "scan"
    /\ input \in DecoLines
    /\ userMapping = NoUsers
    /\ source \in {[kind |-> k] : k \in DecoKinds}
    /\ text = input
    /\ vault = <<>>
    /\ saved = ""
    /\ rewrite = NoRewrite
    /\ NoBatch

\* DecoRound without the exit of the loop: when a scan rewrites nothing, the
\* loop starts over on the line as it was given
DecoRoundStartOver(kind, r) ==
    /\ pc = "scan"
    /\ source.kind = kind
    /\ IF r.found
       THEN /\ text' = r.line
            /\ rewrite' = [none |-> FALSE, before |-> text,
                           start |-> r.start, end |-> r.end]
       ELSE /\ text' = input
            /\ rewrite' = NoRewrite
    /\ pc' = "scan"
    /\ UNCHANGED <<batch, userMapping, source, input, vault, saved>>

\* one round of the for loop of a line: the scan rewrites a match and the
\* line is scanned again, or nothing changes and the loop ends
DecoRound(kind, r) ==
    /\ pc = "scan"
    /\ source.kind = kind
    /\ IF r.found
       THEN /\ text' = r.line
            /\ rewrite' = [none |-> FALSE, before |-> text,
                           start |-> r.start, end |-> r.end]
            /\ pc' = "scan"
       ELSE /\ pc' = "done"
            /\ UNCHANGED <<text, rewrite>>
    /\ UNCHANGED <<batch, userMapping, source, input, vault, saved>>

BoldRound == DecoRound("bold", BoldScan(text))

ItalicRound == DecoRound("italic", ItalicScan(text))

NextDeco == BoldRound \/ ItalicRound

SpecDeco == InitDeco /\ [][NextDeco]_vars

\* C11: no round rewrites a match that has a copy of its delimiter right
\* before or right after it, and the lines `***x***`, `__x__`, `**` and
\* `*a**b*` (and their italic counterparts) come out as they went in
C11_NoRewriteNextToDelimiter ==
    /\ rewrite.none \/ (RewriteBefore # DecoDelimiter /\ RewriteAfter # DecoDelimiter)
    /\ pc = "done" /\ input \in AdjacentExamples => text = input /\ rewrite.none

\* both candidates of `*a**b*` touch the doubled delimiter: the scan found
\* them, rewrote neither and the loop ended
C11_Witness ==
    /\ pc = "done"
    /\ source.kind = "bold"
    /\ input = "*a**b*"
    /\ Len(FindAll(boldPattern, input)) = 2
    /\ text = input

\* C12: an opening delimiter on one line and a closing delimiter on the next
\* are never paired: the two lines come out with their delimiters as
\* written, the line break alone being rendered as two spaces and a break
C12_NoDecorationAcrossLines ==
    pc = "done" /\ source.kind = "split" =>
        text = source.delim \o source.first \o "  \n" \o source.last \o source.delim

\* the Markdown link of an attachment in a rendered section
AttachmentLink(src) ==
    "[" \o src.name \o "](/attachments/" \o PathEscape(storedFilename(IssueKey, src.name))
    \o ")"

\* C13: the rendered section holds the Markdown image of a mapped image
\* file, the plain link of a mapped file of another kind, and the reference
\* as written when the file is no key of the AttachmentMap, whatever
\* characters the file name is made of
C13_ImageReferenceRendered ==
    pc = "rendered" /\ source.kind = "image" =>
        IF ~source.mapped
        THEN Contains(text, "!" \o source.name \o source.attrs \o "!")
        ELSE IF IsImageFile(source.name)
        THEN Contains(text, "!" \o AttachmentLink(source))
        ELSE Contains(text, AttachmentLink(source))
             /\ ~Contains(text, "!" \o AttachmentLink(source))

\* the name a mention of the account id shows: the display name of the
\* UserMapping when there is a non-empty one, the id otherwise
MentionName(id) ==
    IF id \in DOMAIN userMapping /\ userMapping[id] # "" THEN userMapping[id] ELSE id

MentionSpan(id) == "<span class=\"mention\">@" \o MentionName(id) \o "</span>"

\* C14: every [~accountid:ID] of the source stands in the output as the
\* mention span of its name, and the mention step leaves a text without a
\* mention as it is
C14_MentionsRewritten ==
    /\ [](pc = "done" /\ source.kind = "mention" =>
            text = source.pre
                   \o Join([i \in 1..Len(source.ids) |-> MentionSpan(source.ids[i])], " and ")
                   \o source.post)
    /\ [][pc = "mentions" /\ ~Contains(text, "[~accountid:") => text' = text]_vars

---------------------------------------------------------------------------
(* searchIssues and convertFromJSON: the loop over the issue keys (the     *)
(* JSON files) of a batch.  The issue tracker, the HTTP server and the     *)
(* file system answer as the source of the run says.                       *)

\* most issues of a batch
MaxIssues == 2

\* config.Output.AttachmentsDir
AttachmentsDir == "attachments"

\* what an issue of the batch can be: whether it can be fetched (loaded),
\* its reporter, its description, its attachments with the HTTP status of
\* their download, and whether its Markdown file can be written
IssueShapes ==
    {[fetch |-> TRUE, reporter |-> [id |-> "u9", name |-> "Kumi"], description |-> "x",
      attachments |-> <<>>, write |-> TRUE],
     [fetch |-> TRUE, reporter |-> [id |-> "u1", name |-> "Taro"],
      description |-> "[~accountid:u9]", attachments |-> <<>>, write |-> TRUE],
     [fetch |-> FALSE, reporter |-> [id |-> "u9", name |-> "Kumi"], description |-> "x",
      attachments |-> <<>>, write |-> TRUE],
     [fetch |-> TRUE, reporter |-> [id |-> "", name |-> ""], description |-> "!a.png!",
      attachments |-> <<[filename |-> "a.png", status |-> 200, body |-> Body, cut |-> FALSE]>>, write |-> TRUE],
     [fetch |-> TRUE, reporter |-> [id |-> "u1", name |-> "Taro"], description |-> "!a.png!",
      attachments |-> <<[filename |-> "a.png", status |-> 200, body |-> Body, cut |-> FALSE],
                        [filename |-> "b/c.txt", status |-> 404, body |-> Body, cut |-> FALSE]>>, write |-> TRUE],
     [fetch |-> TRUE, reporter |-> [id |-> "u1", name |-> "Taro"], description |-> "x",
      attachments |-> <<[filename |-> "a.png", status |-> 404, body |-> Body, cut |-> FALSE]>>, write |-> FALSE]}

IssueKeyAt(i) == "K-" \o Itoa(i)

\* the batches of 1..MaxIssues issues; the i-th issue has the key K-i
Batches ==
    UNION {[1..n -> IssueShapes] : n \in 1..MaxIssues}

\* the attachments directory before the run: empty, or with a file of K-1
\* left by an earlier run
DisksBefore == {<<>>, [f \in {"K-1_a.png"} |-> "old"]}

BatchSources ==
    {[kind |-> "batch", cmd |-> c, issues |-> b, disk |-> d] :
        c \in {"search", "json"}, b \in Batches, d \in DisksBefore}

InitBatch ==
    /\ pc = "loop"
    /\ source \in BatchSources
    /\ input = ""
    /\ userMapping = <<>>
    /\ text = ""
    /\ vault = EmptyVault
    /\ saved = ""
    /\ rewrite = NoRewrite
    /\ cursor = 1
    /\ disk = source.disk
    /\ calls = <<>>
    /\ written = <<>>
    /\ downloaded = NoDownload
    /\ attachmentFiles = <<>>
    /\ NoSearch

\* the issue the loop is at
CurrentIssue == source.issues[cursor]

\* BuildUserMappingFromIssue: the reporter of the issue is entered under its
\* account id, unless the id is empty
BuildUserMappingFromIssue(issue, mapping) ==
    IF issue.reporter.id = "" THEN mapping
    ELSE [id \in DOMAIN mapping \cup {issue.reporter.id} |->
            IF id = issue.reporter.id THEN issue.reporter.name ELSE mapping[id]]

\* DownloadAttachments without the test for an existing file: every
\* attachment is requested
RECURSIVE downloadFromNoSkip(_, _, _, _)
downloadFromNoSkip(attachments, issueKey, k, st) ==
    IF k > Len(attachments) THEN st
    ELSE LET filename == storedFilename(issueKey, attachments[k].filename)
         IN  IF attachments[k].status # 200
             THEN [st EXCEPT !.err = TRUE,
                             !.requests = Append(@, [op |-> "GET", arg |-> filename])]
             ELSE IF attachments[k].cut
             THEN [st EXCEPT !.err = TRUE,
                             !.disk = filename :> Partial @@ @,
                             !.requests = Append(@, [op |-> "GET", arg |-> filename])]
             ELSE downloadFromNoSkip(attachments, issueKey, k + 1,
                      [st EXCEPT !.files = Append(@, filename),
                                 !.disk = filename :> attachments[k].body @@ @,
                                 !.requests = Append(@, [op |-> "GET", arg |-> filename])])

\* The loop of DownloadAttachments from the k-th attachment on, downloadFile
\* inlined: a file that exists is skipped and its name returned; otherwise
\* the file is requested, and a status other than 200 ends the loop with the
\* names collected so far and an error; so does a transfer that breaks off
\* in io.Copy, after os.Create has made the file, which stays as it is
RECURSIVE downloadFrom(_, _, _, _)
downloadFrom(attachments, issueKey, k, st) ==
    IF k > Len(attachments) THEN st
    ELSE LET filename == storedFilename(issueKey, attachments[k].filename)
         IN  IF filename \in DOMAIN st.disk
             THEN downloadFrom(attachments, issueKey, k + 1,
                      [st EXCEPT !.files = Append(@, filename)])
             ELSE IF attachments[k].status # 200
             THEN [st EXCEPT !.err = TRUE,
                             !.requests = Append(@, [op |-> "GET", arg |-> filename])]
             ELSE IF attachments[k].cut
             THEN [st EXCEPT !.err = TRUE,
                             !.disk = filename :> Partial @@ @,
                             !.requests = Append(@, [op |-> "GET", arg |-> filename])]
             ELSE downloadFrom(attachments, issueKey, k + 1,
                      [st EXCEPT !.files = Append(@, filename),
                                 !.disk = filename :> attachments[k].body @@ @,
                                 !.requests = Append(@, [op |-> "GET", arg |-> filename])])

\* Downloader.DownloadAttachments(issue) in the directory dir: the names of
\* the stored files, the error, the directory afterwards and the requests
DownloadAttachments(attachments, issueKey, dir) ==
    downloadFrom(attachments, issueKey, 1,
                 [files |-> <<>>, err |-> FALSE, disk |-> dir, requests |-> <<>>])

\* GetIssue with a failure that ends the command instead of continuing
GetIssueStopOnError ==
    /\ pc = "loop"
    /\ source.kind = "batch" /\ source.cmd = "search"
    /\ cursor <= Len(source.issues)
    /\ calls' = Append(calls, [op |-> "GetIssue", arg |-> IssueKeyAt(cursor)])
    /\ IF CurrentIssue.fetch
       THEN /\ userMapping' = BuildUserMappingFromIssue(CurrentIssue, userMapping)
            /\ pc' = "download"
       ELSE /\ pc' = "returned"
            /\ UNCHANGED userMapping
    /\ UNCHANGED <<search, source, input, text, vault, saved, rewrite, cursor, disk, written,
                   downloaded, attachmentFiles>>

\* searchIssues, the head of the loop body: GetIssue; a failure is a warning
\* and the loop continues, otherwise the users of the issue are entered in
\* the mapping
GetIssue ==
    /\ pc = "loop"
    /\ source.kind = "batch" /\ source.cmd = "search"
    /\ cursor <= Len(source.issues)
    /\ calls' = Append(calls, [op |-> "GetIssue", arg |-> IssueKeyAt(cursor)])
    /\ IF CurrentIssue.fetch
       THEN /\ userMapping' = BuildUserMappingFromIssue(CurrentIssue, userMapping)
            /\ pc' = "download"
            /\ UNCHANGED cursor
       ELSE /\ cursor' = cursor + 1
            /\ UNCHANGED <<pc, userMapping>>
    /\ UNCHANGED <<search, source, input, text, vault, saved, rewrite, disk, written,
                   downloaded, attachmentFiles>>

\* searchIssues: DownloadAttachments; on an error the list of files is
\* reset to the empty list.  Then WriteIssue starts: generateDescription
\* hands the description to convertJIRAMarkupToMarkdown.
DownloadIssueAttachments ==
    /\ pc = "download"
    /\ LET r == DownloadAttachments(CurrentIssue.attachments, IssueKeyAt(cursor), disk)
       IN  /\ downloaded' = [files |-> r.files, err |-> r.err]
           /\ disk' = r.disk
           /\ calls' = calls \o r.requests
           /\ attachmentFiles' = IF r.err THEN <<>> ELSE r.files
    /\ input' = CurrentIssue.description
    /\ text' = CurrentIssue.description
    /\ vault' = EmptyVault
    /\ pc' = "protectCode"
    /\ UNCHANGED <<search, userMapping, source, saved, rewrite, cursor, written>>

\* convertFromJSON, the head of the loop body: LoadIssue; a failure is
\* reported and the loop continues, otherwise a user mapping is built from
\* this issue alone, the attachment paths are built from the attachment
\* list, and WriteIssue starts
LoadIssue ==
    /\ pc = "loop"
    /\ source.kind = "batch" /\ source.cmd = "json"
    /\ cursor <= Len(source.issues)
    /\ calls' = Append(calls, [op |-> "LoadIssue", arg |-> IssueKeyAt(cursor)])
    /\ IF CurrentIssue.fetch
       THEN /\ userMapping' = BuildUserMappingFromIssue(CurrentIssue, <<>>)
            /\ attachmentFiles' =
                   [i \in 1..Len(CurrentIssue.attachments) |->
                       AttachmentsDir \o "/" \o IssueKeyAt(cursor) \o "_"
                       \o CurrentIssue.attachments[i].filename]
            /\ input' = CurrentIssue.description
            /\ text' = CurrentIssue.description
            /\ vault' = EmptyVault
            /\ pc' = "protectCode"
            /\ UNCHANGED cursor
       ELSE /\ cursor' = cursor + 1
            /\ UNCHANGED <<pc, userMapping, attachmentFiles, input, text, vault>>
    /\ UNCHANGED <<search, source, saved, rewrite, disk, written, downloaded>>

\* WriteIssue, after the content is generated: os.WriteFile; its failure is
\* a warning.  The loop goes to the next item.
WriteIssue ==
    /\ pc = "rendered"
    /\ source.kind = "batch"
    /\ calls' = Append(calls, [op |-> "WriteFile", arg |-> IssueKeyAt(cursor)])
    /\ written' = IF CurrentIssue.write
                  THEN IssueKeyAt(cursor) :> text @@ written
                  ELSE written
    /\ cursor' = cursor + 1
    /\ pc' = "loop"
    /\ UNCHANGED <<search, userMapping, source, input, text, vault, saved, rewrite, disk,
                   downloaded, attachmentFiles>>

\* the loop is over: return nil
ReturnNil ==
    /\ pc = "loop"
    /\ source.kind = "batch"
    /\ cursor > Len(source.issues)
    /\ pc' = "returned"
    /\ UNCHANGED <<userMapping, source, input, text, vault, saved, rewrite, batch>>

NextBatch ==
    \/ GetIssue \/ DownloadIssueAttachments \/ LoadIssue \/ WriteIssue \/ ReturnNil
    \/ NextConvert

SpecBatch == InitBatch /\ [][NextBatch]_vars

\* BuildUserMapping over the issues of the batch that can be fetched, from
\* the k-th on
RECURSIVE BuildUserMappingFrom(_, _, _)
BuildUserMappingFrom(issues, k, mapping) ==
    IF k > Len(issues) THEN mapping
    ELSE BuildUserMappingFrom(issues, k + 1,
             IF issues[k].fetch THEN BuildUserMappingFromIssue(issues[k], mapping)
             ELSE mapping)

\* the user mapping of all issues of the batch
FullUserMapping == BuildUserMappingFrom(source.issues, 1, <<>>)

\* C15: while searchIssues converts an issue, the UserMapping is the one
\* built from all issues of the batch; so a mention of a user of the batch
\* is written with the display name, wherever in the batch the issue stands
C15_MappingBuiltBeforeConversion ==
    source.kind = "batch" /\ source.cmd = "search" =>
        /\ pc \notin {"loop", "download", "returned"} => userMapping = FullUserMapping
        /\ \A i \in 1..Len(source.issues) :
               /\ IssueKeyAt(i) \in DOMAIN written
               /\ source.issues[i].description = "[~accountid:u9]"
               /\ "u9" \in DOMAIN FullUserMapping
               => written[IssueKeyAt(i)] = "<span class=\"mention\">@Kumi</span>"

\* the calls of the run that fetch or load an item, and those that write
\* its Markdown file
FetchCalls == SelectSeq(calls, LAMBDA c : c.op \in {"GetIssue", "LoadIssue"})
WriteCalls == SelectSeq(calls, LAMBDA c : c.op = "WriteFile")

\* the indexes of the issues of the batch that can be fetched, in order
RECURSIVE FetchedFrom(_)
FetchedFrom(k) ==
    IF k > Len(source.issues) THEN <<>>
    ELSE (IF source.issues[k].fetch THEN <<k>> ELSE <<>>) \o FetchedFrom(k + 1)

\* C16: when a batch command has returned, it has returned nil, every item
\* of the batch was fetched (loaded) in order, and the Markdown file of every
\* item that could be fetched was attempted in order, whatever failed on the
\* way
C16_BatchContinuesAfterFailure ==
    source.kind = "batch" /\ pc = "returned" =>
        /\ FetchCalls =
               [i \in 1..Len(source.issues) |->
                   [op |-> IF source.cmd = "search" THEN "GetIssue" ELSE "LoadIssue",
                    arg |-> IssueKeyAt(i)]]
        /\ WriteCalls =
               [j \in 1..Len(FetchedFrom(1)) |->
                   [op |-> "WriteFile", arg |-> IssueKeyAt(FetchedFrom(1)[j])]]
        /\ cursor = Len(source.issues) + 1

\* the first issue could not be fetched; the download and the write of the
\* second failed; the command returned after the second
C16_Witness ==
    /\ pc = "returned"
    /\ source.kind = "batch" /\ source.cmd = "search"
    /\ Len(source.issues) = 2
    /\ ~source.issues[1].fetch
    /\ source.issues[2].fetch /\ ~source.issues[2].write
    /\ downloaded.err
    /\ calls = <<[op |-> "GetIssue", arg |-> "K-1"], [op |-> "GetIssue", arg |-> "K-2"],
                 [op |-> "GET", arg |-> "K-2_a.png"], [op |-> "WriteFile", arg |-> "K-2"]>>
    /\ written = <<>>

\* strings.Count(s, sub): the non-overlapping occurrences of sub in s
RECURSIVE Count(_, _)
Count(s, sub) ==
    LET k == IndexFrom(s, sub, 1)
    IN  IF k = 0 THEN 0 ELSE 1 + Count(SubSeq(s, k + Len(sub), Len(s)), sub)

\* C17: a placeholder token the user wrote stands in the output as written,
\* the content of the protected span stands there once, and no token the
\* pipeline made is left
C17_PlaceholdersDoNotCollide ==
    pc = "done" /\ source.kind = "literal" =>
        /\ Count(text, source.token) = 1
        /\ Count(text, "a") = 1
        /\ Count(text, source.prefix) = 1

\* the AttachmentMap WriteIssue builds for the issue the loop is at
AttachmentMap == buildAttachmentMap(IssueAttachments, attachmentFiles)

\* C18: while an issue of the search command is converted, every attachment
\* of the issue whose file is stored in the attachments directory is mapped
\* from its original file name to its stored file name
C18_DownloadedAttachmentsMapped ==
    source.kind = "batch" /\ source.cmd = "search" /\ pc = "done" =>
        \A k \in 1..Len(CurrentIssue.attachments) :
            LET filename == CurrentIssue.attachments[k].filename
                stored == storedFilename(IssueKeyAt(cursor), filename)
            IN  stored \in DOMAIN disk =>
                    /\ filename \in DOMAIN AttachmentMap
                    /\ AttachmentMap[filename] = stored

\* the k-th attachment of the issue the loop is at is reached by the loop
\* of DownloadAttachments: no attachment before it failed
Reached(k) ==
    \A j \in 1..(k - 1) :
        \/ CurrentIssue.attachments[j].status = 200
        \/ storedFilename(IssueKeyAt(cursor), CurrentIssue.attachments[j].filename)
               \in DOMAIN source.disk

---------------------------------------------------------------------------
(* downloadFile up to the stored file name, over attachment names made of  *)
(* the characters the replacer looks for.                                  *)

\* longest attachment name
MaxNameLen == 4

NameAlphabet == {"/", "\\", ".", ":", "a"}

AttachmentNames == Strings(NameAlphabet, MaxNameLen)

InitSanitize ==
    /\ pc = "downloadFile"
    /\ input \in AttachmentNames
    /\ userMapping = NoUsers
    /\ source = [kind |-> "attachment"]
    /\ text = ""
    /\ vault = <<>>
    /\ saved = ""
    /\ rewrite = NoRewrite
    /\ NoBatch

\* downloadFile: safeFilename := d.sanitizeFilename(attachment.Filename),
\* and the stored name is made of the issue key and the safe name
SanitizeFilename ==
    /\ pc = "downloadFile"
    /\ source.kind = "attachment"
    /\ text' = sanitizeFilename(input)
    /\ saved' = storedFilename(IssueKey, input)
    /\ pc' = "named"
    /\ UNCHANGED <<batch, userMapping, source, input, vault, rewrite>>

NextSanitize == SanitizeFilename

SpecSanitize == InitSanitize /\ [][NextSanitize]_vars

\* the substrings sanitizeFilename is to remove
Unsafe == {"/", "\\", ":", ".."}

\* C20: the sanitized name holds no slash, no backslash, no colon and no two
\* dots in a row, and a name that holds none of them comes out as it went in
C20_SanitizedNameIsSafe ==
    pc = "named" =>
        /\ \A u \in Unsafe : ~Contains(text, u)
        /\ (\A u \in Unsafe : ~Contains(input, u)) => text = input

\* an odd run of dots before a separator: each unsafe substring became one
\* underscore and the third dot stayed
C20_Witness ==
    /\ pc = "named"
    /\ input = ".../"
    /\ text = "_._"

---------------------------------------------------------------------------
(* JIRAClient.SearchJQLV3: the paging loop against a server whose result   *)
(* set has source.pages pages.  Page i holds one issue and, unless it is   *)
(* the last, the token of page i + 1.  Each response is the page asked for *)
(* or a response that departs from it.                                     *)

\* the loop bound of SearchJQLV3
maxPages == 100

\* the longest result set, in pages
MaxServerPages == 102

PageKey(i) == "I-" \o Itoa(i)

PageToken(i) == "t" \o Itoa(i)

\* the page a request asks for: the first without a token, otherwise the
\* page after the one that handed out the token
PageAsked(token) ==
    IF token = "" THEN 1
    ELSE 1 + CHOOSE i \in 1..MaxServerPages : PageToken(i) = token

\* the response that carries page i of n
PageResponse(i, n) ==
    [status |-> 200, issues |-> <<PageKey(i)>>,
     nextPageToken |-> IF i < n THEN PageToken(i) ELSE "", isLast |-> (i >= n),
     kind |-> "page"]

\* the responses the server may give when page i of n is asked for: the
\* page, an error status, and for a page that is not the last: the page
\* without its issues, without its token, or with the token it was asked with
Responses(i, n, token) ==
    {PageResponse(i, n),
     [PageResponse(i, n) EXCEPT !.status = 500, !.kind = "status"]}
    \cup (IF i < n
          THEN {[PageResponse(i, n) EXCEPT !.issues = <<>>, !.kind = "empty"],
                [PageResponse(i, n) EXCEPT !.nextPageToken = "", !.kind = "notoken"]}
               \cup (IF token # ""
                     THEN {[PageResponse(i, n) EXCEPT !.nextPageToken = token,
                                                      !.kind = "repeat"]}
                     ELSE {})
          ELSE {})

SearchSources == {[kind |-> "search", pages |-> n] : n \in 1..MaxServerPages}

InitSearch ==
    /\ pc = "search"
    /\ source \in SearchSources
    /\ input = ""
    /\ userMapping = NoUsers
    /\ text = ""
    /\ vault = <<>>
    /\ saved = ""
    /\ rewrite = NoRewrite
    /\ NoBatch

\* the conditions that end the loop after a response of status 200, with
\* the token of a repeated response not looked up in seenTokens
stopSearchUnseen(resp, seen) ==
    \/ resp.isLast \/ Len(resp.issues) = 0
    \/ resp.nextPageToken = ""

\* the conditions that end the loop after a response of status 200: the
\* first break, the break on a token of seenTokens, the break on no token
stopSearch(resp, seen) ==
    \/ resp.isLast \/ Len(resp.issues) = 0
    \/ resp.nextPageToken \in seen
    \/ resp.nextPageToken = ""

\* one iteration of the for loop: the request with nextPageToken, the
\* response, the keys appended, the stop conditions, page++ and the loop
\* condition.  A status other than 200 returns nil and an error.
SearchPage ==
    /\ pc = "search"
    /\ source.kind = "search"
    /\ page < maxPages
    /\ \E resp \in Responses(PageAsked(nextPageToken), source.pages, nextPageToken) :
        /\ calls' = Append(calls, [op |-> "GET", arg |-> nextPageToken, resp |-> resp])
        /\ IF resp.status # 200
           THEN /\ pc' = "error"
                /\ UNCHANGED search
           ELSE /\ allIssueKeys' = allIssueKeys \o resp.issues
                /\ IF stopSearch(resp, seenTokens)
                   THEN /\ pc' = "returned"
                        /\ UNCHANGED <<page, nextPageToken, seenTokens>>
                   ELSE /\ seenTokens' = seenTokens \cup {resp.nextPageToken}
                        /\ nextPageToken' = resp.nextPageToken
                        /\ page' = page + 1
                        /\ pc' = IF page + 1 < maxPages THEN "search" ELSE "returned"
    /\ UNCHANGED <<userMapping, source, input, text, vault, saved, rewrite, cursor, disk,
                   written, downloaded, attachmentFiles>>

NextSearch == SearchPage

\* the loop runs on while it can: the function is one sequential call
SpecSearch == InitSearch /\ [][NextSearch]_vars /\ WF_vars(SearchPage)

\* every response so far carried the page asked for
AllPagesServed == \A i \in 1..Len(calls) : calls[i].resp.kind = "page"

\* C21: the first request has no token and each later one the token of the
\* response before it, and when the function returns without error from a
\* server that served every page asked for, the keys of all pages of the
\* result set are returned in page order
C21_AllPagesReturned ==
    source.kind = "search" =>
        /\ \A i \in 1..Len(calls) :
               calls[i].arg = IF i = 1 THEN "" ELSE calls[i - 1].resp.nextPageToken
        /\ pc = "returned" /\ AllPagesServed =>
               allIssueKeys = [i \in 1..source.pages |-> PageKey(i)]

\* the response of the last request
LastResponse == calls[Len(calls)].resp

\* C28: the search sends at most maxPages requests, a request is the last
\* one as soon as its response is the last page, has no issues, has no
\* token or has a token of an earlier response, and the function returns
C28_SearchTerminates ==
    /\ [](source.kind = "search" => Len(calls) <= maxPages)
    /\ [][source.kind = "search" /\ calls' # calls =>
            LET resp == calls'[Len(calls')].resp
            IN  /\ resp.status = 200
                /\ \/ resp.isLast
                   \/ resp.issues = <<>>
                   \/ resp.nextPageToken = ""
                   \/ resp.nextPageToken \in seenTokens
                => pc' = "returned"]_vars
    /\ (source.kind = "search" => <>(pc \in {"returned", "error"}))

\* a result set of more than maxPages pages: the function has returned
\* after maxPages requests, every one answered with the page asked for
C28_Witness ==
    /\ source.kind = "search"
    /\ pc = "returned"
    /\ Len(calls) = maxPages
    /\ AllPagesServed
    /\ ~LastResponse.isLast

---------------------------------------------------------------------------
(* The re-scan loops of convertBoldMarkup, convertItalicMarkup and         *)
(* convertStrikethroughMarkup on one line, a round per step, over lines    *)
(* made of the delimiter of the loop, a letter and a space.                *)

\* longest line
MaxRoundLen == 6

RoundKinds == {"bold", "italic", "strike"}

RoundDelimiter(kind) ==
    CASE kind = "bold" -> "*" [] kind = "italic" -> "_" [] kind = "strike" -> "-"

\* two spans on one line, apart and sharing a delimiter
RoundExamples(kind) ==
    LET d == RoundDelimiter(kind)
    IN  {d \o "a" \o d \o " " \o d \o "a" \o d, d \o "a" \o d \o "a" \o d \o "a" \o d}

RoundLines(kind) ==
    Strings({RoundDelimiter(kind), "a", " "}, MaxRoundLen) \cup RoundExamples(kind)

\* before a line is taken
InitRounds ==
    /\ pc = "line"
    /\ source = [kind |-> "none"]
    /\ input = ""
    /\ userMapping = NoUsers
    /\ text = ""
    /\ vault = <<>>
    /\ saved = ""
    /\ rewrite = NoRewrite
    /\ NoBatch

\* `for _, line := range lines { converted := line`: one of the three
\* functions takes a line
TakeLine ==
    /\ pc = "line"
    /\ \E k \in RoundKinds :
        /\ source' = [kind |-> k]
        /\ \E line \in RoundLines(k) :
            /\ input' = line
            /\ text' = line
    /\ pc' = "scan"
    /\ UNCHANGED <<batch, userMapping, vault, saved, rewrite>>

StrikeDecoRound == DecoRound("strike", StrikeScan(text))

NextRounds == TakeLine \/ BoldRound \/ ItalicRound \/ StrikeDecoRound

\* A loop is sequential code: while a step can be taken, it is taken.  This
\* is weak fairness of NextRounds, WF_vars(NextRounds), with its
\* ENABLED <<NextRounds>>_vars written out: a line can be taken at "line",
\* and at "scan" a round either rewrites the line or ends the loop.
FairRounds == []<>(pc = "done") \/ []<><<NextRounds>>_vars

SpecRounds == InitRounds /\ [][NextRounds]_vars /\ FairRounds

\* where the acceptable matches of a line start: the matches of the pattern
\* of the loop that its check does not reject
AcceptableStarts(kind, line) ==
    LET ms == CASE kind = "bold" -> FindAll(boldPattern, line)
                [] kind = "italic" -> FindAll(italicPattern, line)
                [] kind = "strike" -> FindAll(strikePattern, line)
        rejected(m) == CASE kind = "bold" -> isBold(line, m)
                         [] kind = "italic" -> isItalic(line, m)
                         [] kind = "strike" -> shouldSkip(line, m)
    IN  {ms[j].start : j \in {i \in 1..Len(ms) : ~rejected(ms[i])}}

\* C22 as claimed: the match a round rewrites is the leftmost acceptable
\* match of the line
C22_AsClaimed ==
    rewrite.none \/
        rewrite.start = MinOf(AcceptableStarts(source.kind, rewrite.before))

\* C22 amended: the match a round rewrites is the rightmost acceptable match
\* of the line, and the loop ends on a line without an acceptable match
C22_RightmostFirst ==
    /\ rewrite.none \/
           rewrite.start = MaxOf(AcceptableStarts(source.kind, rewrite.before))
    /\ pc = "done" => AcceptableStarts(source.kind, text) = {}

\* the first round on `*a* *a*`: both spans were acceptable and the second
\* was rewritten
C22_Witness ==
    /\ source.kind = "bold"
    /\ input = "*a* *a*"
    /\ ~rewrite.none /\ rewrite.before = input
    /\ AcceptableStarts("bold", input) = {1, 5}
    /\ text = "*a* **a**"

\* C27: on every line the loop of each of the three functions comes to its
\* end: after finitely many rounds a scan rewrites nothing
C27_RoundsTerminate == <>(pc = "done")

\* the loop of convertStrikethroughMarkup has ended after two rewrites
C27_Witness ==
    /\ source.kind = "strike"
    /\ pc = "done"
    /\ input = "-a- -a-"
    /\ text = "~~a~~ ~~a~~"
    /\ ~rewrite.none /\ rewrite.before = "-a- ~~a~~"

---------------------------------------------------------------------------
(* extractJIRATables on texts given line by line: header lines, data lines *)
(* with and without their closing "|", plain lines and empty lines.        *)

\* most lines of a text
MaxExtractLines == 4

ExtractLineAlphabet == {"||h||", "|a|", "|a", "b|", "b", ""}

ExtractSources ==
    {[kind |-> "lines", lines |-> ls] :
        ls \in UNION {[1..n -> ExtractLineAlphabet] : n \in 1..MaxExtractLines}}

InitExtract ==
    /\ pc = "extract"
    /\ source \in ExtractSources
    /\ input = Join(source.lines, "\n")
    /\ userMapping = NoUsers
    /\ text = input
    /\ vault = <<>>
    /\ saved = ""
    /\ rewrite = NoRewrite
    /\ NoBatch

\* text, tables := mw.extractJIRATables(text)
ExtractTables ==
    /\ pc = "extract"
    /\ source.kind = "lines"
    /\ LET r == extractJIRATables(text)
       IN  /\ text' = r.text
           /\ vault' = r.tables
    /\ pc' = "extracted"
    /\ UNCHANGED <<batch, userMapping, source, input, saved, rewrite>>

NextExtract == ExtractTables

SpecExtract == InitExtract /\ [][NextExtract]_vars

\* the lines of the i-th extracted table
TableLinesOf(i) == Split(vault[i], "\n")

\* C23: no extracted table, with or without header line, holds an empty
\* line, or a header line after its first line: joining the lines of a cell
\* stops before either
C23_JoinStopsAtBlankOrHeader ==
    pc = "extracted" =>
        \A i \in 1..Len(vault) :
            \A k \in 1..Len(TableLinesOf(i)) :
                /\ TableLinesOf(i)[k] # ""
                /\ k > 1 => ~isHeaderLine(TableLinesOf(i)[k])

\* each placeholder of the text replaced by its table
RECURSIVE RestoreTables(_, _, _)
RestoreTables(t, tables, i) ==
    IF i > Len(tables) THEN t
    ELSE RestoreTables(ReplaceAll(t, TablePlaceholder(i - 1), tables[i]), tables, i + 1)

\* C24: the text returned by extractJIRATables, with each placeholder
\* replaced by its table, is the text that went in
C24_ExtractLossless ==
    pc = "extracted" => RestoreTables(text, vault, 1) = input

\* the rejection rules as listed for a candidate -t- with l before it and r
\* after it on the line
StrikeRejected(l, t, r) ==
    LET blocking == AsciiAlnum \cup {"-", "/", ":", ";"}
    IN  \/ Contains(t, "-")
        \/ TrimSpace(t) = ""
        \/ l = "" /\ HasPrefix(t, " ")
        \/ l # "" /\ CharAt(l, Len(l)) \in blocking
        \/ r # "" /\ CharAt(r, 1) \in blocking
        \/ HasSuffix(l, "~~") \/ HasPrefix(r, "~~")

\* C25: when the loop has ended on a line made of one candidate -t- and its
\* surroundings, and no rejection rule applies to the candidate, the line
\* holds ~~t~~ in its place
C25_EveryAcceptedSpanRewritten ==
    pc = "done" =>
        \A l \in StrikeAround, r \in StrikeAround, t \in StrikeContents :
            input = l \o "-" \o t \o "-" \o r /\ ~StrikeRejected(l, t, r) =>
                text = l \o "~~" \o t \o "~~" \o r

\* C26: the output holds the Markdown link of a source link, its target
\* being the url of the source character by character
C26_LinkTargetUntouched ==
    pc = "done" /\ source.kind = "link" =>
        text = source.pre \o "[" \o source.label \o "](" \o source.url \o ")" \o source.post

---------------------------------------------------------------------------
(* Downloader.DownloadAttachments called again and again for one issue,    *)
(* each transfer succeeding, refused by the server, or breaking off.       *)

\* most calls of DownloadAttachments
MaxCalls == 3
\* most attachments of the issue
MaxAttachments == 2

\* original file names: one plain, two that differ in a replaced character
DownloadNames == {"a.png", "b/c", "b:c"}

DownloadSources ==
    {[kind |-> "download", names |-> ns] :
        ns \in UNION {[1..n -> DownloadNames] : n \in 1..MaxAttachments}}

\* the content of the i-th attachment of the issue
AttachmentBody(i) == "body" \o Itoa(i)

\* what happens to one transfer
Outcomes ==
    {[status |-> 200, cut |-> FALSE], [status |-> 200, cut |-> TRUE],
     [status |-> 404, cut |-> FALSE]}

InitDownload ==
    /\ pc = "idle"
    /\ source \in DownloadSources
    /\ input = ""
    /\ userMapping = NoUsers
    /\ text = ""
    /\ vault = <<>>
    /\ saved = ""
    /\ rewrite = NoRewrite
    /\ NoBatch

\* one call of DownloadAttachments for the issue; cursor counts the calls
CallDownloadAttachments ==
    /\ pc \in {"idle", "returned"}
    /\ source.kind = "download"
    /\ cursor < MaxCalls
    /\ \E outs \in [1..Len(source.names) -> Outcomes] :
        LET attachments ==
                [i \in 1..Len(source.names) |->
                    [filename |-> source.names[i], status |-> outs[i].status,
                     body |-> AttachmentBody(i), cut |-> outs[i].cut]]
            r == DownloadAttachments(attachments, IssueKey, disk)
        IN  /\ downloaded' = [files |-> r.files, err |-> r.err]
            /\ disk' = r.disk
            /\ calls' = calls \o r.requests
    /\ cursor' = cursor + 1
    /\ pc' = "returned"
    /\ UNCHANGED <<search, userMapping, source, input, text, vault, saved, rewrite,
                   written, attachmentFiles>>

NextDownload == CallDownloadAttachments

SpecDownload == InitDownload /\ [][NextDownload]_vars

\* C29: every file name a call returns names a file of the directory that
\* holds the whole body of an attachment stored under that name
C29_ReturnedFilesComplete ==
    pc = "returned" =>
        \A i \in 1..Len(downloaded.files) :
            LET f == downloaded.files[i]
            IN  /\ f \in DOMAIN disk
                /\ \E k \in 1..Len(source.names) :
                       /\ storedFilename(IssueKey, source.names[k]) = f
                       /\ disk[f] = AttachmentBody(k)

\* C30: when a call has returned the names of all attachments and no
\* transfer ever broke off, two attachments have two stored names and each
\* file holds the body of its own attachment
C30_StoredFilesDistinct ==
    /\ pc = "returned" /\ ~downloaded.err
    /\ \A f \in DOMAIN disk : disk[f] # Partial
    => \A i, j \in 1..Len(source.names) :
           /\ disk[downloaded.files[i]] = AttachmentBody(i)
           /\ i # j => downloaded.files[i] # downloaded.files[j]

===========================================================================
